---- MODULE Spec2Model ----
(***************************************************************************)
(* A model of the decision pipeline of the ERA Decision & Arbitration      *)
(* Layer: the Solver Pool's parallel dispatch, the Orchestrator's single   *)
(* run (arbitration, rebuttal escalation, consensus tie-break, reliability *)
(* update, run records), the multi-run loop, and the Early Stopper with    *)
(* its Adaptive Run Manager.                                               *)
(*                                                                         *)
(* Numbers: scores, confidences and thresholds are kept in hundredths      *)
(* (0.07 is 7, 0.55 is 55); a rate n/d is compared with a threshold t/100  *)
(* as 100*n >= t*d.  A text (an answer) is a sequence of characters.  The   *)
(* remote model call is the environment: each call draws its raw response  *)
(* from a small set.                                                       *)
(***************************************************************************)
EXTENDS Integers, Sequences, FiniteSets, TLC

(***************************************************************************)
(* Bounds of the model.                                                    *)
(***************************************************************************)
\* Largest roster the Solver Pool is dispatched over when called directly.
MaxRoster == 3

(***************************************************************************)
(* Program constants.                                                      *)
(***************************************************************************)
\* solver_pool.py:69  max_workers: int = 8
DefaultMaxWorkers == 8

\* orchestrator.py:37  consensus_topk: int = 3
DefaultConsensusTopK == 3
\* orchestrator.py:38  epsilon: float = 0.07
DefaultEpsilon == 7
\* orchestrator.py:40  disagreement_threshold: float = 0.55
DefaultDisagreementThreshold == 55

VARIABLES
    entry,          \* the method the caller entered: "run_parallel", "run_single", ...
    pc,             \* position of the caller's thread inside that method
    error,          \* the exception that left the method, "" when none
    \* ---- SolverPool.run_parallel
    solvers,        \* SolverPool.solvers: the roster, a sequence of model ids
    max_workers,    \* run_parallel's max_workers argument
    futures,        \* one future per roster entry
    results,        \* the list the as_completed loop appends to (candidates_r1)
    \* ---- MultiLLMOrchestrator.run_single: arguments
    consensus_topk,
    epsilon,
    enable_rebuttal,
    disagreement_threshold,
    \* ---- run_single: locals
    disagreement_rate,   \* [num, den]: unique answers / candidates
    candidates_current,
    arbiter_current,     \* the ArbiterOutput in use
    round_number,
    improved,            \* RebuttalRound.run: the list under construction
    rebuttal_ok,         \* per rebuttal call made, whether its response was valid
    candidates_r2,
    decision_mode,
    used_candidates,
    final_answer,
    \* ---- the model calls made so far in this run
    arbiter_calls,
    arbiter_raw,         \* kind of the latest arbiter response ("none" before)
    rebuttal_runs,
    consensus_calls,
    consensus_raw,       \* kind of the consensus response ("none" before)
    \* ---- state that outlives the run
    model_memory,        \* ModelMemory.state: model id -> [n, reliability]
    run_log,             \* runs.csv: the rows written so far
    \* ---- EarlyStopper and AdaptiveRunManager
    config,              \* EarlyStopper.config
    run_history,         \* EarlyStopper.run_history: answer signatures
    stability_streak,
    last_dominant,
    max_runs,            \* AdaptiveRunManager.max_runs
    min_runs,            \* AdaptiveRunManager.min_runs
    decision,            \* the StoppingDecision the latest call returned
    continues,           \* should_continue's first return value
    \* ---- MultiLLMOrchestrator.run_multi
    repeats,
    results_per_run,
    stability,           \* StabilityAnalyzer.analyze's result
    final_data,          \* final.json
    memory_file,         \* model_memory.json
    \* ---- a function called on its own, and concurrent callers
    call_in,             \* the arguments of the call
    call_out,            \* what the call returned
    updaters,            \* the threads inside ModelMemory: thread -> its position
    \* ---- LRUCache
    max_size,            \* LRUCache.max_size
    cache,               \* LRUCache._cache: the entries, least recently used first
    clock                \* time.time()

poolVars == <<solvers, max_workers, futures, results>>
argVars == <<consensus_topk, epsilon, enable_rebuttal, disagreement_threshold>>
localVars == <<disagreement_rate, candidates_current, arbiter_current, round_number,
               improved, rebuttal_ok, candidates_r2, decision_mode, used_candidates,
               final_answer>>
callVars == <<arbiter_calls, arbiter_raw, rebuttal_runs, consensus_calls, consensus_raw>>
durableVars == <<model_memory, run_log>>
orchVars == <<argVars, localVars, callVars, durableVars>>
stopVars == <<config, run_history, stability_streak, last_dominant, max_runs, min_runs,
              decision, continues>>
multiVars == <<repeats, results_per_run, stability, final_data, memory_file>>
auxVars == <<call_in, call_out, updaters>>
cacheVars == <<max_size, cache, clock>>
outerVars == <<stopVars, multiVars, auxVars, cacheVars>>
vars == <<entry, pc, error, poolVars, orchVars, outerVars>>

(***************************************************************************)
(* Helpers on sequences.                                                   *)
(***************************************************************************)
Range(s) == {s[i] : i \in DOMAIN s}

Min(a, b) == IF a <= b THEN a ELSE b

(***************************************************************************)
(* The worker call and its structured response                             *)
(* (providers.py generate, utils.py safe_parse_json, schemas.py).          *)
(***************************************************************************)
WorkerName(i) == CASE i = 1 -> "w1" [] i = 2 -> "w2" [] i = 3 -> "w3"
                   [] i = 4 -> "w4" [] OTHER -> "w5"

NoPayload == [final_answer |-> <<>>, confidence |-> 0]

\* Parsed responses that satisfy SOLVER_SCHEMA.
SolverPayloads == { [final_answer |-> <<"a">>, confidence |-> 90],
                    [final_answer |-> <<"b">>, confidence |-> 60] }

\* What one generate() round trip can come back with: the call raises
\* (timeout / transport error), the text does not parse, the parsed object
\* violates the schema, or it is a valid structured response.
FailKinds == {"timeout", "malformed", "schema_invalid"}

RawSolverResponses ==
    { [kind |-> k, payload |-> NoPayload] : k \in FailKinds }
    \cup { [kind |-> "ok", payload |-> p] : p \in SolverPayloads }

NoOutput == [model_id |-> "", final_answer |-> <<>>, confidence |-> 0, timestamp |-> 0]

\* SolverOutput(...) as built from a validated response.  timestamp is the
\* logical time (the round) at which the object was created.
SolverOutput(model_id, payload, now) ==
    [model_id |-> model_id, final_answer |-> payload.final_answer,
     confidence |-> payload.confidence, timestamp |-> now]

\* call_solver(spec): returns a SolverOutput, or logs and re-raises.
call_solver_dropping_check(model_id, raw) ==
    [ok |-> raw.kind # "timeout", value |-> SolverOutput(model_id, raw.payload, 1)]

call_solver(model_id, raw) ==
    IF raw.kind = "ok"
    THEN [ok |-> TRUE, value |-> SolverOutput(model_id, raw.payload, 1)]
    ELSE [ok |-> FALSE, value |-> NoOutput]

(***************************************************************************)
(* SolverPool.run_parallel (solver_pool.py 64-123).                        *)
(***************************************************************************)
IdleFuture == [state |-> "none", raw_ok |-> FALSE, ok |-> FALSE, value |-> NoOutput]

Indices == 1..Len(solvers)

InFlight == {i \in Indices : futures[i].state = "running"}

\* An executor with one thread per roster entry
PoolSize_roster == Len(solvers)

\* ThreadPoolExecutor(max_workers=min(max_workers, len(self.solvers)))
PoolSize == Min(max_workers, Len(solvers))

\* futures = [executor.submit(call_solver, spec) for spec in self.solvers]
Submit ==
    /\ pc = "run_parallel"
    /\ futures' = [i \in Indices |-> [IdleFuture EXCEPT !.state = "queued"]]
    /\ results' = <<>>
    /\ pc' = "as_completed"
    /\ UNCHANGED <<entry, error, solvers, max_workers, orchVars, outerVars>>

\* An executor thread takes the oldest queued work item.
StartCall(i) ==
    /\ pc = "as_completed"
    /\ futures[i].state = "queued"
    /\ \A j \in Indices : j < i => futures[j].state # "queued"
    /\ Cardinality(InFlight) < PoolSize
    /\ futures' = [futures EXCEPT ![i].state = "running"]
    /\ UNCHANGED <<entry, pc, error, solvers, max_workers, results, orchVars, outerVars>>

\* The worker call of roster entry i comes back; the future is set to the
\* SolverOutput or to the exception.  raw_ok remembers whether the response
\* itself was a valid one.
FinishCall(i) ==
    /\ pc = "as_completed"
    /\ futures[i].state = "running"
    /\ \E raw \in RawSolverResponses :
         LET r == call_solver(solvers[i], raw)
         IN futures' = [futures EXCEPT ![i] =
                           [state |-> "done", raw_ok |-> (raw.kind = "ok"),
                            ok |-> r.ok, value |-> r.value]]
    /\ UNCHANGED <<entry, pc, error, solvers, max_workers, results, orchVars, outerVars>>

\* for future in as_completed(futures): one finished future is handed to the
\* loop body: result() is appended, or the exception is logged.
AsCompleted(i) ==
    /\ pc = "as_completed"
    /\ futures[i].state = "done"
    /\ futures' = [futures EXCEPT ![i].state = "collected"]
    /\ results' = IF futures[i].ok THEN Append(results, futures[i].value) ELSE results
    /\ UNCHANGED <<entry, pc, error, solvers, max_workers, orchVars, outerVars>>

\* The loop left as soon as one future has been handed to its body
AllCollected_first_only == \E i \in Indices : futures[i].state = "collected"

AllCollected == \A i \in Indices : futures[i].state = "collected"

\* return results: to the caller of the pool, or back into run_single (line 48)
ReturnResults ==
    /\ pc = "as_completed"
    /\ AllCollected
    /\ pc' = IF entry = "run_parallel" THEN "returned" ELSE "disagreement"
    /\ UNCHANGED <<entry, error, poolVars, orchVars, outerVars>>

(***************************************************************************)
(* Arbiter.rank (arbiter.py 26-84).                                        *)
(***************************************************************************)
Scores == {85, 91, 92}

RosterIds == Range(solvers)

\* Ranking lists an arbiter response can carry: any order, any scores, any
\* subset of the roster (a worker without a candidate included).
Rankings ==
    UNION { { r \in [1..n -> [model_id : RosterIds, score : Scores]] :
                \A i, j \in 1..n : i # j => r[i].model_id # r[j].model_id }
            : n \in 0..Len(solvers) }

\* The answer text of an arbiter response: a text of its own per call.
ArbiterAnswer(call) == IF call = 1 THEN <<"r", "1">> ELSE <<"r", "2">>

NoArbiterPayload == [selected_model_id |-> "", ranking |-> <<>>, final_answer |-> <<>>]

\* Parsed responses of the call-th arbiter call that satisfy ARBITER_SCHEMA.
ArbiterPayloads(call) ==
    [selected_model_id : RosterIds, ranking : Rankings, final_answer : {ArbiterAnswer(call)}]

RawArbiterResponses(call) ==
    { [kind |-> k, payload |-> NoArbiterPayload] : k \in FailKinds }
    \cup { [kind |-> "ok", payload |-> p] : p \in ArbiterPayloads(call) }

\* list.sort(key=lambda x: x.score, reverse=True): stable, descending.
RECURSIVE InsertByScore(_, _)
InsertByScore(e, sorted) ==
    IF sorted = <<>> THEN <<e>>
    ELSE IF Head(sorted).score >= e.score
         THEN <<Head(sorted)>> \o InsertByScore(e, Tail(sorted))
         ELSE <<e>> \o sorted

RECURSIVE SortByScoreDesc(_)
SortByScoreDesc(r) ==
    IF r = <<>> THEN <<>>
    ELSE InsertByScore(r[Len(r)], SortByScoreDesc(SubSeq(r, 1, Len(r) - 1)))

NoArbiterOutput ==
    [selected_model_id |-> "", ranking |-> <<>>, final_answer |-> <<>>,
     decision_mode |-> "", used_candidates |-> <<>>]

rank_with_fallback(raw) ==
    [ok |-> TRUE,
     value |-> [selected_model_id |-> raw.payload.selected_model_id,
                ranking |-> SortByScoreDesc(raw.payload.ranking),
                final_answer |-> raw.payload.final_answer,
                decision_mode |-> "hard_select",
                used_candidates |-> <<raw.payload.selected_model_id>>]]

\* A variant of rank that keeps the order of the response.
rank_unsorted(raw) ==
    IF raw.kind = "ok"
    THEN [ok |-> TRUE,
          value |-> [selected_model_id |-> raw.payload.selected_model_id,
                     ranking |-> raw.payload.ranking,
                     final_answer |-> raw.payload.final_answer,
                     decision_mode |-> "hard_select",
                     used_candidates |-> <<raw.payload.selected_model_id>>]]
    ELSE [ok |-> FALSE, value |-> NoArbiterOutput]

\* rank(...): the ArbiterOutput, or the exception logged and re-raised.
rank(raw) ==
    IF raw.kind = "ok"
    THEN [ok |-> TRUE,
          value |-> [selected_model_id |-> raw.payload.selected_model_id,
                     ranking |-> SortByScoreDesc(raw.payload.ranking),
                     final_answer |-> raw.payload.final_answer,
                     decision_mode |-> "hard_select",
                     used_candidates |-> <<raw.payload.selected_model_id>>]]
    ELSE [ok |-> FALSE, value |-> NoArbiterOutput]

(***************************************************************************)
(* MultiLLMOrchestrator.run_single (orchestrator.py 33-149).               *)
(***************************************************************************)
\* len(set(c.final_answer for c in candidates))
UniqueAnswers(candidates) ==
    Cardinality({candidates[i].final_answer : i \in DOMAIN candidates})

\* The rate with the answers beyond the first distinct one counted
DisagreementRate_beyond_first(candidates) ==
    [num |-> UniqueAnswers(candidates) - 1, den |-> Len(candidates)]

\* unique_answers / len(candidates), for a non-empty list (lines 56-57, 75-76)
DisagreementRate(candidates) ==
    [num |-> UniqueAnswers(candidates), den |-> Len(candidates)]

\* The method is left by an exception.
Raise(e) ==
    /\ pc' = "raised"
    /\ error' = e

\* A variant of the disagreement check that takes an empty candidate set as
\* full agreement and goes on to the arbiter.
Disagreement_tolerating_empty ==
    /\ pc = "disagreement"
    /\ disagreement_rate' = IF Len(results) = 0 THEN [num |-> 0, den |-> 1]
                            ELSE DisagreementRate(results)
    /\ pc' = "arbitrate"
    /\ UNCHANGED error
    /\ UNCHANGED <<entry, poolVars, argVars, outerVars, candidates_current, arbiter_current,
                   round_number, improved, rebuttal_ok, candidates_r2, decision_mode,
                   used_candidates, final_answer, callVars, durableVars>>

\* lines 55-58: the disagreement check; an empty candidate set divides by zero.
Disagreement ==
    /\ pc = "disagreement"
    /\ IF Len(results) = 0
       THEN /\ Raise("ZeroDivisionError")
            /\ UNCHANGED disagreement_rate
       ELSE /\ disagreement_rate' = DisagreementRate(results)
            /\ pc' = "arbitrate"
            /\ UNCHANGED error
    /\ UNCHANGED <<entry, poolVars, argVars, outerVars, candidates_current, arbiter_current,
                   round_number, improved, rebuttal_ok, candidates_r2, decision_mode,
                   used_candidates, final_answer, callVars, durableVars>>

\* lines 60-67: the first arbitration.  The log line 63 reads ranking[0].
ArbitrateR1 ==
    /\ pc = "arbitrate"
    /\ \E raw \in RawArbiterResponses(arbiter_calls + 1) :
         LET r == rank(raw) IN
         /\ arbiter_calls' = arbiter_calls + 1
         /\ arbiter_raw' = raw.kind
         /\ IF ~r.ok
            THEN /\ Raise("ArbiterError")
                 /\ UNCHANGED <<candidates_current, arbiter_current, round_number>>
            ELSE IF r.value.ranking = <<>>
            THEN /\ Raise("IndexError")
                 /\ UNCHANGED <<candidates_current, arbiter_current, round_number>>
            ELSE /\ candidates_current' = results
                 /\ arbiter_current' = r.value
                 /\ round_number' = 1
                 /\ pc' = "escalate"
                 /\ UNCHANGED error
    /\ UNCHANGED <<entry, poolVars, argVars, outerVars, disagreement_rate, improved, rebuttal_ok,
                   candidates_r2, decision_mode, used_candidates, final_answer,
                   rebuttal_runs, consensus_calls, consensus_raw, durableVars>>

\* line 70: disagreement_rate >= disagreement_threshold
RateAtLeast_strict(rate, threshold) == 100 * rate.num > threshold * rate.den

RateAtLeast(rate, threshold) == 100 * rate.num >= threshold * rate.den

\* The condition of line 70 with the rate left out
escalates_ignoring_rate(enabled, rate, threshold) == enabled

\* line 70: enable_rebuttal and disagreement_rate >= disagreement_threshold
escalates(enabled, rate, threshold) == enabled /\ RateAtLeast(rate, threshold)

\* line 70-72: the escalation decision; rebuttal.run is entered when taken.
Escalate ==
    /\ pc = "escalate"
    /\ IF escalates(enable_rebuttal, disagreement_rate, disagreement_threshold)
       THEN /\ pc' = "rebuttal"
            /\ rebuttal_runs' = rebuttal_runs + 1
            /\ improved' = <<>>
            /\ rebuttal_ok' = <<>>
       ELSE /\ pc' = "tie_break"
            /\ UNCHANGED <<rebuttal_runs, improved, rebuttal_ok>>
    /\ UNCHANGED <<entry, error, poolVars, argVars, outerVars, disagreement_rate, candidates_current,
                   arbiter_current, round_number, candidates_r2, decision_mode,
                   used_candidates, final_answer, arbiter_calls, arbiter_raw,
                   consensus_calls, consensus_raw, durableVars>>

(***************************************************************************)
(* RebuttalRound.run (rebuttal.py 29-79), called at orchestrator.py 72.    *)
(***************************************************************************)
rebuttal_step_dropping(improved_so_far, own_output, raw) ==
    IF raw.kind = "ok"
    THEN Append(improved_so_far, SolverOutput(own_output.model_id, raw.payload, 2))
    ELSE improved_so_far

\* One pass of the loop body for own_output: the improved candidate is
\* appended, or on any exception the worker's own prior output.
rebuttal_step(improved_so_far, own_output, raw) ==
    IF raw.kind = "ok"
    THEN Append(improved_so_far, SolverOutput(own_output.model_id, raw.payload, 2))
    ELSE Append(improved_so_far, own_output)

\* for own_output in all_outputs: one iteration, its model call included.
\* The loop variable is Len(rebuttal_ok) + 1: one call per iteration.
RebuttalIteration ==
    /\ pc = "rebuttal"
    /\ Len(rebuttal_ok) < Len(candidates_current)
    /\ \E raw \in RawSolverResponses :
         /\ improved' = rebuttal_step(improved, candidates_current[Len(rebuttal_ok) + 1], raw)
         /\ rebuttal_ok' = Append(rebuttal_ok, raw.kind = "ok")
    /\ UNCHANGED <<entry, pc, error, poolVars, argVars, outerVars, disagreement_rate,
                   candidates_current, arbiter_current, round_number, candidates_r2,
                   decision_mode, used_candidates, final_answer, callVars, durableVars>>

\* The return of the Rebuttal Round taken straight to the consensus check
RebuttalReturn_without_rearbitration ==
    /\ pc = "rebuttal"
    /\ Len(rebuttal_ok) = Len(candidates_current)
    /\ candidates_r2' = improved
    /\ disagreement_rate' = DisagreementRate(improved)
    /\ pc' = "tie_break"
    /\ UNCHANGED <<entry, error, poolVars, argVars, outerVars, candidates_current,
                   arbiter_current, round_number, improved, rebuttal_ok, decision_mode,
                   used_candidates, final_answer, callVars, durableVars>>

\* return improved; lines 72-77: candidates_r2 and the recomputed disagreement.
RebuttalReturn ==
    /\ pc = "rebuttal"
    /\ Len(rebuttal_ok) = Len(candidates_current)
    /\ candidates_r2' = improved
    /\ IF Len(improved) = 0
       THEN /\ Raise("ZeroDivisionError")
            /\ UNCHANGED disagreement_rate
       ELSE /\ disagreement_rate' = DisagreementRate(improved)
            /\ pc' = "rearbitrate"
            /\ UNCHANGED error
    /\ UNCHANGED <<entry, poolVars, argVars, outerVars, candidates_current, arbiter_current,
                   round_number, improved, rebuttal_ok, decision_mode, used_candidates,
                   final_answer, callVars, durableVars>>

\* lines 79-82: the arbitration of the rebuttal round's candidates.
ArbitrateR2 ==
    /\ pc = "rearbitrate"
    /\ \E raw \in RawArbiterResponses(arbiter_calls + 1) :
         LET r == rank(raw) IN
         /\ arbiter_calls' = arbiter_calls + 1
         /\ arbiter_raw' = raw.kind
         /\ IF ~r.ok
            THEN /\ Raise("ArbiterError")
                 /\ UNCHANGED <<candidates_current, arbiter_current, round_number>>
            ELSE /\ arbiter_current' = r.value
                 /\ candidates_current' = candidates_r2
                 /\ round_number' = 2
                 /\ pc' = "tie_break"
                 /\ UNCHANGED error
    /\ UNCHANGED <<entry, poolVars, argVars, outerVars, disagreement_rate, improved, rebuttal_ok,
                   candidates_r2, decision_mode, used_candidates, final_answer,
                   rebuttal_runs, consensus_calls, consensus_raw, durableVars>>

(***************************************************************************)
(* ConsensusSynthesizer.synthesize (consensus.py 25-70).                   *)
(***************************************************************************)
\* The consensus call raises (timeout, unparseable text), or returns a JSON
\* object; the object is not schema-checked and a missing final_answer reads
\* as the empty text (parsed.get("final_answer", "")).
ConsensusFailKinds == {"timeout", "malformed"}

RawConsensusResponses ==
    { [kind |-> k, final_answer |-> <<>>] : k \in ConsensusFailKinds }
    \cup { [kind |-> "ok", final_answer |-> a] : a \in {<<"s">>, <<>>} }

\* s[:k]
Take(s, k) == SubSeq(s, 1, Min(k, Len(s)))

ModelIds(cs) == [i \in DOMAIN cs |-> cs[i].model_id]

NoConsensusResult == [final_answer |-> <<>>, sources |-> <<>>]

synthesize(top_candidates, topk, raw) ==
    IF raw.kind = "ok"
    THEN [ok |-> TRUE,
          value |-> [final_answer |-> raw.final_answer,
                     sources |-> ModelIds(Take(top_candidates, topk))]]
    ELSE [ok |-> FALSE, value |-> NoConsensusResult]

(***************************************************************************)
(* run_single, lines 84-115: the consensus check.                          *)
(***************************************************************************)
ConsensusTag(k) == CASE k = 0 -> "consensus_top0" [] k = 1 -> "consensus_top1"
                     [] k = 2 -> "consensus_top2" [] k = 3 -> "consensus_top3"
                     [] OTHER -> "consensus_topN"

\* lines 89-91: if len(ranking) >= 2: gap = r[0].score - r[1].score; if gap < epsilon
GapBelowEpsilon_inclusive(ranking, eps) ==
    /\ Len(ranking) >= 2
    /\ ranking[1].score - ranking[2].score <= eps

GapBelowEpsilon(ranking, eps) ==
    /\ Len(ranking) >= 2
    /\ ranking[1].score - ranking[2].score < eps

\* A variant that takes the first top_k candidates as they were collected.
TopCandidates_first_collected(candidates, ranking, top_k) ==
    Take(candidates, top_k)

\* lines 94-96
TopCandidates(candidates, ranking, top_k) ==
    LET ranked == {ranking[i].model_id : i \in 1..Min(top_k, Len(ranking))}
        top_models == {candidates[i].model_id :
                          i \in {j \in DOMAIN candidates : candidates[j].model_id \in ranked}}
    IN SelectSeq(candidates, LAMBDA c : c.model_id \in top_models)

\* The decision after a consensus attempt: overwritten on success, the
\* hard-select values kept when synthesize raised.
consensus_outcome_partial(hard, top_k, r) ==
    IF r.ok
    THEN [decision_mode |-> ConsensusTag(top_k), used_candidates |-> r.value.sources,
          final_answer |-> r.value.final_answer]
    ELSE [hard EXCEPT !.decision_mode = ConsensusTag(top_k)]

\* The outcome with the arbiter's single selection kept on success
consensus_outcome_keeping_selection(hard, top_k, r) ==
    IF r.ok
    THEN [decision_mode |-> ConsensusTag(top_k), used_candidates |-> hard.used_candidates,
          final_answer |-> r.value.final_answer]
    ELSE hard

consensus_outcome(hard, top_k, r) ==
    IF r.ok
    THEN [decision_mode |-> ConsensusTag(top_k), used_candidates |-> r.value.sources,
          final_answer |-> r.value.final_answer]
    ELSE hard

TieBreak ==
    /\ pc = "tie_break"
    /\ LET hard == [decision_mode |-> "hard_select",
                    used_candidates |-> <<arbiter_current.selected_model_id>>,
                    final_answer |-> arbiter_current.final_answer]
           Finish(d) ==
               /\ decision_mode' = d.decision_mode
               /\ used_candidates' = d.used_candidates
               /\ final_answer' = d.final_answer
               \* lines 112-115
               /\ arbiter_current' = [arbiter_current EXCEPT
                                         !.final_answer = d.final_answer,
                                         !.decision_mode = d.decision_mode,
                                         !.used_candidates = d.used_candidates]
       IN IF GapBelowEpsilon(arbiter_current.ranking, epsilon)
          THEN \E raw \in RawConsensusResponses :
                 LET top_k == Min(consensus_topk, Len(candidates_current))
                     top_candidates == TopCandidates(candidates_current,
                                                     arbiter_current.ranking, top_k)
                     r == synthesize(top_candidates, top_k, raw)
                 IN /\ consensus_calls' = consensus_calls + 1
                    /\ consensus_raw' = raw.kind
                    /\ Finish(consensus_outcome(hard, top_k, r))
          ELSE /\ Finish(hard)
               /\ UNCHANGED <<consensus_calls, consensus_raw>>
    /\ pc' = "update"
    /\ UNCHANGED <<entry, error, poolVars, argVars, outerVars, disagreement_rate, candidates_current,
                   round_number, improved, rebuttal_ok, candidates_r2, arbiter_calls,
                   arbiter_raw, rebuttal_runs, durableVars>>

(***************************************************************************)
(* ModelMemory (model_memory.py).  A reliability r is kept as the integer  *)
(* r * RelUnit; RelUnit makes five successive updates from 0.5 exact.      *)
(***************************************************************************)
RelUnit == 2 * 20 * 20 * 20 * 20 * 20

\* model_memory.py:32  lr: float = 0.05
DefaultLearningRate == 5

\* model_memory.py:38  {"n": 0, "reliability": 0.5}
FreshEntry == [n |-> 0, reliability |-> RelUnit \div 2]

\* update_reliability(model_id, reward), reward 0 or 1
update_reliability(state, model_id, reward) ==
    LET s == IF model_id \in DOMAIN state THEN state[model_id] ELSE FreshEntry
        t == [n |-> s.n + 1,
              reliability |-> ((100 - DefaultLearningRate) * s.reliability
                               + DefaultLearningRate * reward * RelUnit) \div 100]
    IN [m \in DOMAIN state \cup {model_id} |-> IF m = model_id THEN t ELSE state[m]]

\* for model_id in ids: update_reliability(model_id, reward)
RECURSIVE UpdateAll(_, _, _)
UpdateAll(state, ids, reward) ==
    IF ids = <<>> THEN state
    ELSE UpdateAll(update_reliability(state, Head(ids), reward), Tail(ids), reward)

\* A variant that credits the used workers and leaves the others alone.
MemoryAfterRun_used_only(state, used, candidates) == UpdateAll(state, used, 1)

\* orchestrator.py 117-122: reward 1 for used_candidates, then reward 0 for
\* every candidate whose model id is not in used_candidates
MemoryAfterRun(state, used, candidates) ==
    LET rewarded == UpdateAll(state, used, 1)
        others == SelectSeq(ModelIds(candidates), LAMBDA m : m \notin Range(used))
    IN UpdateAll(rewarded, others, 0)

UpdateMemory ==
    /\ pc = "update"
    /\ model_memory' = MemoryAfterRun(model_memory, used_candidates, candidates_current)
    /\ pc' = "emit"
    /\ UNCHANGED <<entry, error, poolVars, argVars, outerVars, localVars, callVars, run_log>>

(***************************************************************************)
(* run_single, lines 124-149: the run records and the return.              *)
(***************************************************************************)
\* next((r.score for r in ranking if r.model_id == m), None); None is -1
ArbiterScore(ranking, m) ==
    IF \E i \in DOMAIN ranking : ranking[i].model_id = m
    THEN ranking[CHOOSE i \in DOMAIN ranking :
                    /\ ranking[i].model_id = m
                    /\ \A j \in DOMAIN ranking : ranking[j].model_id = m => i <= j].score
    ELSE -1

\* orchestrator.py:136  final_answer[:100] + "..." if len(final_answer) > 100
RecordAnswerLen == 100

Truncated(answer) ==
    IF Len(answer) > RecordAnswerLen
    THEN Take(answer, RecordAnswerLen) \o <<".", ".", ".">>
    ELSE answer

\* RunRecord(...) for one candidate of a finished run.
RunRecord(candidate, round, ranking, mode, used, answer) ==
    [iter_index |-> 0,
     round_number |-> round,
     solver_model_id |-> candidate.model_id,
     confidence |-> candidate.confidence,
     arbiter_score |-> ArbiterScore(ranking, candidate.model_id),
     decision_mode |-> mode,
     used_candidates |-> used,
     final_answer |-> Truncated(answer)]

\* lines 125-140: one record per candidate, in the order of the list
RunRecords(candidates, round, ranking, mode, used, answer) ==
    [i \in DOMAIN candidates |->
        RunRecord(candidates[i], round, ranking, mode, used, answer)]

EmitRecords ==
    /\ pc = "emit"
    /\ run_log' = run_log \o RunRecords(candidates_current, round_number,
                                        arbiter_current.ranking, decision_mode,
                                        used_candidates, final_answer)
    /\ pc' = "done"
    /\ UNCHANGED <<entry, error, poolVars, argVars, outerVars, localVars, callVars, model_memory>>

(***************************************************************************)
(* EarlyStopper (early_stopping.py).  A Wilson bound is irrational, so a   *)
(* confidence interval is carried as the pair (successes, total) it is     *)
(* computed from and compared with a threshold by exact integer algebra.   *)
(***************************************************************************)
\* early_stopping.py:35-38  EarlyStoppingConfig defaults
DefaultMinRuns == 3
DefaultConfidenceThreshold == 85
DefaultConvergenceThreshold == 80
DefaultStabilityWindow == 2

\* early_stopping.py:154  current_run >= 5
AdaptiveMinRuns == 5
\* early_stopping.py:156  convergence >= 0.8
AdaptiveConvergence == 80

\* early_stopping.py:81  z = 1.96, in hundredths
Z == 196

\* early_stopping.py:103  answer[:200]
SignatureLen == 200

\* early_stopping.py:200-202  AdaptiveRunManager defaults
DefaultMaxRuns == 10
DefaultManagerMinRuns == 3
DefaultTargetConfidence == 85

\* Longest run history recorded by one stopper.
MaxHistory == 6

DefaultConfig ==
    [min_runs |-> DefaultMinRuns,
     confidence_threshold |-> DefaultConfidenceThreshold,
     convergence_threshold |-> DefaultConvergenceThreshold,
     stability_window |-> DefaultStabilityWindow,
     enable_adaptive |-> TRUE]

\* Optional[str] None; no signature is equal to it.
None == <<"None">>

\* str.lower on the characters the answers are made of
Lower(c) == CASE c = "A" -> "a" [] c = "B" -> "b" [] c = "C" -> "c" [] OTHER -> c

RECURSIVE LStrip(_)
LStrip(t) == IF t # <<>> /\ Head(t) = " " THEN LStrip(Tail(t)) ELSE t

RECURSIVE RStrip(_)
RStrip(t) ==
    IF t # <<>> /\ t[Len(t)] = " " THEN RStrip(SubSeq(t, 1, Len(t) - 1)) ELSE t

\* _get_answer_signature: answer[:200].lower().strip()
get_answer_signature(answer) ==
    IF answer = <<>> THEN <<>>
    ELSE LET cut == Take(answer, SignatureLen)
         IN LStrip(RStrip([i \in DOMAIN cut |-> Lower(cut[i])]))

\* Counter(history)[x]
Count(history, x) == Cardinality({i \in DOMAIN history : history[i] = x})

FirstIndex(history, x) ==
    CHOOSE i \in DOMAIN history :
        history[i] = x /\ \A j \in DOMAIN history : history[j] = x => i <= j

\* The most frequent element with a tie going to the element seen last
MostCommon_last_seen(history) ==
    history[CHOOSE i \in DOMAIN history :
        \A j \in DOMAIN history :
           \/ Count(history, history[i]) > Count(history, history[j])
           \/ /\ Count(history, history[i]) = Count(history, history[j])
              /\ FirstIndex(history, history[i]) >= FirstIndex(history, history[j])]

\* Counter(history).most_common(1)[0][0]: the largest count, and among equal
\* counts the element seen first.  history is not empty.
MostCommon(history) ==
    history[CHOOSE i \in DOMAIN history :
        /\ i = FirstIndex(history, history[i])
        /\ \A j \in DOMAIN history :
              \/ Count(history, history[i]) > Count(history, history[j])
              \/ /\ Count(history, history[i]) = Count(history, history[j])
                 /\ i <= FirstIndex(history, history[j])]

\* a / b >= c / d for a, c >= 0 and b, d > 0, by continued fractions
RECURSIVE FracGE(_, _, _, _)
FracGE(a, b, c, d) ==
    IF a \div b # c \div d THEN a \div b > c \div d
    ELSE IF c % d = 0 THEN TRUE
    ELSE IF a % b = 0 THEN FALSE
    ELSE FracGE(d, c % d, b, a % b)

\* _wilson_ci(successes, total): the interval, kept as its two arguments
wilson_ci(successes, total) == [successes |-> successes, total |-> total]

\* ci_lower >= t / 100 for ci_lower = max(0, (center - spread) / denominator):
\*   (center - spread) / denominator >= q
\*     <=>  (2s + z^2 - 2q(n + z^2)) * sqrt(n) >= z * sqrt(4s(n - s) + z^2 n)
\* and, multiplied by 10^6 with z^2 = Z^2 / 10^4 and q = t / 100,
\*     <=>  A >= 0  and  A^2 * n >= (100 Z)^2 * B.
CiLowerAtLeast(ci, t) ==
    IF ci.total = 0 THEN t <= 0
    ELSE IF t <= 0 THEN TRUE
    ELSE LET s == ci.successes
             n == ci.total
             A == 100 * (20000 * s + Z * Z) - 2 * t * (10000 * n + Z * Z)
             B == 40000 * s * (n - s) + Z * Z * n
         IN A > 0 /\ FracGE(A, 10000 * Z * Z, B, A * n)

ReasonMinimum == "Minimum runs not reached"
ReasonConfidence == "High confidence achieved"
ReasonStable == "Stable convergence"
ReasonAdaptive == "Adaptive stop"
ReasonContinuing == "Continuing runs"
ReasonMaximum == "Maximum runs reached"

\* Variants of the rule chain that the properties below must tell apart.
verdict_without_minimum(cfg, current_run, ci, dominant_count, streak) ==
    IF CiLowerAtLeast(ci, cfg.confidence_threshold)
    THEN [should_stop |-> TRUE, reason |-> ReasonConfidence]
    ELSE IF /\ 100 * dominant_count >= cfg.convergence_threshold * current_run
            /\ streak >= cfg.stability_window
    THEN [should_stop |-> TRUE, reason |-> ReasonStable]
    ELSE [should_stop |-> FALSE, reason |-> ReasonContinuing]

verdict_stable_first(cfg, current_run, ci, dominant_count, streak) ==
    IF current_run < cfg.min_runs
    THEN [should_stop |-> FALSE, reason |-> ReasonMinimum]
    ELSE IF /\ 100 * dominant_count >= cfg.convergence_threshold * current_run
            /\ streak >= cfg.stability_window
    THEN [should_stop |-> TRUE, reason |-> ReasonStable]
    ELSE IF CiLowerAtLeast(ci, cfg.confidence_threshold)
    THEN [should_stop |-> TRUE, reason |-> ReasonConfidence]
    ELSE IF cfg.enable_adaptive /\ current_run >= AdaptiveMinRuns
    THEN IF 100 * dominant_count >= AdaptiveConvergence * current_run
         THEN [should_stop |-> TRUE, reason |-> ReasonAdaptive]
         ELSE [should_stop |-> FALSE, reason |-> ReasonContinuing]
    ELSE [should_stop |-> FALSE, reason |-> ReasonContinuing]

verdict_adaptive_first(cfg, current_run, ci, dominant_count, streak) ==
    IF current_run < cfg.min_runs
    THEN [should_stop |-> FALSE, reason |-> ReasonMinimum]
    ELSE IF CiLowerAtLeast(ci, cfg.confidence_threshold)
    THEN [should_stop |-> TRUE, reason |-> ReasonConfidence]
    ELSE IF /\ cfg.enable_adaptive /\ current_run >= AdaptiveMinRuns
            /\ 100 * dominant_count >= AdaptiveConvergence * current_run
    THEN [should_stop |-> TRUE, reason |-> ReasonAdaptive]
    ELSE IF /\ 100 * dominant_count >= cfg.convergence_threshold * current_run
            /\ streak >= cfg.stability_window
    THEN [should_stop |-> TRUE, reason |-> ReasonStable]
    ELSE [should_stop |-> FALSE, reason |-> ReasonContinuing]

\* record_run, lines 137-158: should_stop and reason
verdict(cfg, current_run, ci, dominant_count, streak) ==
    IF current_run < cfg.min_runs
    THEN [should_stop |-> FALSE, reason |-> ReasonMinimum]
    ELSE IF CiLowerAtLeast(ci, cfg.confidence_threshold)
    THEN [should_stop |-> TRUE, reason |-> ReasonConfidence]
    ELSE IF /\ 100 * dominant_count >= cfg.convergence_threshold * current_run
            /\ streak >= cfg.stability_window
    THEN [should_stop |-> TRUE, reason |-> ReasonStable]
    ELSE IF cfg.enable_adaptive /\ current_run >= AdaptiveMinRuns
    THEN IF 100 * dominant_count >= AdaptiveConvergence * current_run
         THEN [should_stop |-> TRUE, reason |-> ReasonAdaptive]
         ELSE [should_stop |-> FALSE, reason |-> ReasonContinuing]
    ELSE [should_stop |-> FALSE, reason |-> ReasonContinuing]

NoDecision ==
    [should_stop |-> FALSE, reason |-> "", current_run |-> 0, total_planned_runs |-> 0,
     convergence_score |-> [num |-> 0, den |-> 1],
     confidence_interval |-> wilson_ci(0, 0),
     dominant_answer |-> None, dominant_count |-> 0, saved_runs |-> 0]

\* An emptied history with the streak and the last dominant left as they are
FreshStopper_keeping_streak ==
    [run_history |-> <<>>, stability_streak |-> stability_streak,
     last_dominant |-> last_dominant]

\* The stopper's own fields.
FreshStopper == [run_history |-> <<>>, stability_streak |-> 0, last_dominant |-> None]

\* record_run with a streak that is never started over
record_run_never_restarting(cfg, stopper, answer) ==
    LET history == Append(stopper.run_history, get_answer_signature(answer))
        current_run == Len(history)
        dominant_answer == MostCommon(history)
        dominant_count == Count(history, dominant_answer)
        ci == wilson_ci(dominant_count, current_run)
        streak == stopper.stability_streak + 1
        v == verdict(cfg, current_run, ci, dominant_count, streak)
    IN [stopper |-> [run_history |-> history,
                     stability_streak |-> streak,
                     last_dominant |-> dominant_answer],
        decision |-> [should_stop |-> v.should_stop,
                      reason |-> v.reason,
                      current_run |-> current_run,
                      total_planned_runs |-> 0,
                      convergence_score |-> [num |-> dominant_count, den |-> current_run],
                      confidence_interval |-> ci,
                      dominant_answer |-> dominant_answer,
                      dominant_count |-> dominant_count,
                      saved_runs |-> 0]]

\* EarlyStopper.record_run: the stopper's fields after the call and the
\* StoppingDecision returned.
record_run(cfg, stopper, answer) ==
    LET history == Append(stopper.run_history, get_answer_signature(answer))
        current_run == Len(history)
        dominant_answer == MostCommon(history)
        dominant_count == Count(history, dominant_answer)
        ci == wilson_ci(dominant_count, current_run)
        streak == IF dominant_answer = stopper.last_dominant
                  THEN stopper.stability_streak + 1
                  ELSE 1
        v == verdict(cfg, current_run, ci, dominant_count, streak)
    IN [stopper |-> [run_history |-> history,
                     stability_streak |-> streak,
                     last_dominant |-> dominant_answer],
        decision |-> [should_stop |-> v.should_stop,
                      reason |-> v.reason,
                      current_run |-> current_run,
                      total_planned_runs |-> 0,
                      convergence_score |-> [num |-> dominant_count, den |-> current_run],
                      confidence_interval |-> ci,
                      dominant_answer |-> dominant_answer,
                      dominant_count |-> dominant_count,
                      saved_runs |-> 0]]

\* A variant of should_continue without the ceiling.
should_continue_without_ceiling(lo, hi, recorded, planned_total) ==
    LET d == [recorded.decision EXCEPT !.total_planned_runs = planned_total]
    IN IF d.current_run < lo THEN [continues |-> TRUE, decision |-> d]
       ELSE IF d.should_stop
       THEN [continues |-> FALSE,
             decision |-> [d EXCEPT !.saved_runs = planned_total - d.current_run]]
       ELSE [continues |-> TRUE, decision |-> d]

\* AdaptiveRunManager.should_continue, lines 228-249, on what record_run
\* returned; lo and hi are self.min_runs and self.max_runs.
should_continue(lo, hi, recorded, planned_total) ==
    LET d == [recorded.decision EXCEPT !.total_planned_runs = planned_total]
    IN IF d.current_run < lo THEN [continues |-> TRUE, decision |-> d]
       ELSE IF d.current_run >= hi
       THEN [continues |-> FALSE,
             decision |-> [d EXCEPT !.should_stop = TRUE, !.reason = ReasonMaximum]]
       ELSE IF d.should_stop
       THEN [continues |-> FALSE,
             decision |-> [d EXCEPT !.saved_runs = planned_total - d.current_run]]
       ELSE [continues |-> TRUE, decision |-> d]

\* The answers handed to a stopper: "a" and "A " have the same signature.
StopperAnswers == { <<"a">>, <<"A", " ">>, <<"b">>, <<"c">> }

\* orchestrator.py:154  repeats: int = 5, the planned total of a caller
DefaultRepeats == 5

Stopper ==
    [run_history |-> run_history, stability_streak |-> stability_streak,
     last_dominant |-> last_dominant]

SetStopper(st) ==
    /\ run_history' = st.run_history
    /\ stability_streak' = st.stability_streak
    /\ last_dominant' = st.last_dominant

\* early_stopper.record_run(answer)
RecordRun ==
    /\ entry = "record_run"
    /\ Len(run_history) < MaxHistory
    /\ \E answer \in StopperAnswers :
         LET r == record_run(config, Stopper, answer)
         IN /\ SetStopper(r.stopper)
            /\ decision' = r.decision
    /\ UNCHANGED <<entry, pc, error, poolVars, orchVars, config, max_runs, min_runs,
                   continues, multiVars, auxVars, cacheVars>>

\* EarlyStopper.reset, lines 56-60
Reset ==
    /\ entry = "record_run"
    /\ SetStopper(FreshStopper)
    /\ UNCHANGED <<entry, pc, error, poolVars, orchVars, config, max_runs, min_runs,
                   decision, continues, multiVars, auxVars, cacheVars>>

\* run_manager.should_continue(answer, planned_total)
ShouldContinue ==
    /\ entry = "should_continue"
    /\ Len(run_history) < MaxHistory
    /\ \E answer \in StopperAnswers :
         LET recorded == record_run(config, Stopper, answer)
             r == should_continue(min_runs, max_runs, recorded, DefaultRepeats)
         IN /\ SetStopper(recorded.stopper)
            /\ decision' = r.decision
            /\ continues' = r.continues
    /\ UNCHANGED <<entry, pc, error, poolVars, orchVars, config, max_runs, min_runs,
                   multiVars, auxVars, cacheVars>>

\* AdaptiveRunManager.start_problem, lines 213-215
StartProblem ==
    /\ entry = "should_continue"
    /\ SetStopper(FreshStopper)
    /\ UNCHANGED <<entry, pc, error, poolVars, orchVars, config, max_runs, min_runs,
                   decision, continues, multiVars, auxVars, cacheVars>>

\* The total_runs a caller of check_early_stop plans.
PlannedTotals == {DefaultRepeats, DefaultMaxRuns}

\* check_early_stop(answer, current_run, total_runs), lines 274-294, on the
\* singleton early_stopper: current_run is the caller's run number.
CheckEarlyStop ==
    /\ entry = "check_early_stop"
    /\ \E answer \in StopperAnswers, current_run \in 1..MaxHistory,
          total_runs \in PlannedTotals :
         LET before == IF current_run = 1 THEN FreshStopper ELSE Stopper
             r == record_run(config, before, answer)
         IN /\ Len(before.run_history) < MaxHistory
            /\ SetStopper(r.stopper)
            /\ decision' =
                  [r.decision EXCEPT
                     !.total_planned_runs = total_runs,
                     !.saved_runs = IF r.decision.should_stop
                                    THEN total_runs - current_run
                                    ELSE 0]
    /\ UNCHANGED <<entry, pc, error, poolVars, orchVars, config, max_runs, min_runs,
                   continues, multiVars, auxVars, cacheVars>>

\* The module's singletons before any call (lines 269-270).
StopperIdle ==
    /\ config = DefaultConfig
    /\ run_history = <<>>
    /\ stability_streak = 0
    /\ last_dominant = None
    /\ max_runs = DefaultMaxRuns
    /\ min_runs = DefaultManagerMinRuns
    /\ decision = NoDecision
    /\ continues = TRUE

(***************************************************************************)
(* run_multi (orchestrator.py 151-208).  Each iteration is one run_single, *)
(* taken here in one step: it either raises or returns, having updated     *)
(* the reliability store and written its run records.                      *)
(***************************************************************************)
\* Largest repeat count handed to run_multi.
MaxRepeats == 4

Candidate(model_id, answer, conf) ==
    [model_id |-> model_id, final_answer |-> answer, confidence |-> conf, timestamp |-> 1]

\* What run_single can come back with: an exception, or the state of a
\* finished run.
RunSingleOutcomes ==
    { [raised |-> "ArbiterError", candidates |-> <<>>, round_number |-> 1,
       ranking |-> <<>>, decision_mode |-> "", used_candidates |-> <<>>,
       final_answer |-> <<>>],
      [raised |-> "",
       candidates |-> <<Candidate("w1", <<"a">>, 90), Candidate("w2", <<"a">>, 60)>>,
       round_number |-> 1,
       ranking |-> <<[model_id |-> "w1", score |-> 92], [model_id |-> "w2", score |-> 85]>>,
       decision_mode |-> "hard_select", used_candidates |-> <<"w1">>,
       final_answer |-> <<"a">>],
      [raised |-> "",
       candidates |-> <<Candidate("w1", <<"a">>, 90), Candidate("w2", <<"b">>, 60)>>,
       round_number |-> 2,
       ranking |-> <<[model_id |-> "w2", score |-> 92], [model_id |-> "w1", score |-> 85]>>,
       decision_mode |-> "hard_select", used_candidates |-> <<"w2">>,
       final_answer |-> <<"b">>],
      [raised |-> "",
       candidates |-> <<Candidate("w1", <<"a">>, 90), Candidate("w2", <<"b">>, 60)>>,
       round_number |-> 1,
       ranking |-> <<[model_id |-> "w1", score |-> 91], [model_id |-> "w2", score |-> 85]>>,
       decision_mode |-> "consensus_top2", used_candidates |-> <<"w1", "w2">>,
       final_answer |-> <<"A", " ">>] }

\* A variant of the iteration that records a failed run as an outcome
\* without a label and goes on.
RunIteration_counting_failures ==
    /\ entry = "run_multi"
    /\ pc = "run_multi"
    /\ Len(results_per_run) < repeats
    /\ \E o \in RunSingleOutcomes :
         /\ IF o.raised # ""
            THEN UNCHANGED <<model_memory, run_log>>
            ELSE /\ model_memory' = MemoryAfterRun(model_memory, o.used_candidates,
                                                   o.candidates)
                 /\ run_log' = run_log \o RunRecords(o.candidates, o.round_number,
                                                     o.ranking, o.decision_mode,
                                                     o.used_candidates, o.final_answer)
         /\ results_per_run' = Append(results_per_run,
                [decision_mode |-> o.decision_mode,
                 used_candidates |-> o.used_candidates,
                 final_answer |-> o.final_answer])
         /\ UNCHANGED <<pc, error>>
    /\ UNCHANGED <<entry, poolVars, argVars, localVars, callVars, stopVars, repeats,
                   stability, final_data, memory_file, auxVars, cacheVars>>

\* lines 165-179: one iteration of  for i in range(repeats)
RunIteration ==
    /\ entry = "run_multi"
    /\ pc = "run_multi"
    /\ Len(results_per_run) < repeats
    /\ \E o \in RunSingleOutcomes :
         IF o.raised # ""
         THEN /\ Raise(o.raised)
              /\ UNCHANGED <<results_per_run, model_memory, run_log>>
         ELSE /\ model_memory' = MemoryAfterRun(model_memory, o.used_candidates,
                                                o.candidates)
              /\ run_log' = run_log \o RunRecords(o.candidates, o.round_number,
                                                  o.ranking, o.decision_mode,
                                                  o.used_candidates, o.final_answer)
              /\ results_per_run' = Append(results_per_run,
                     [decision_mode |-> o.decision_mode,
                      used_candidates |-> o.used_candidates,
                      final_answer |-> o.final_answer])
              /\ UNCHANGED <<pc, error>>
    /\ UNCHANGED <<entry, poolVars, argVars, localVars, callVars, stopVars, repeats,
                   stability, final_data, memory_file, auxVars, cacheVars>>

\* Exact comparisons of a Wilson bound (irrational in general) with a
\* rational, used wherever the code compares or rounds a bound.
\* The sign of a / b - c / d for a, c >= 0 and b, d > 0.
RECURSIVE FracCmp(_, _, _, _)
FracCmp(a, b, c, d) ==
    IF a \div b # c \div d THEN (IF a \div b > c \div d THEN 1 ELSE -1)
    ELSE IF a % b = 0 /\ c % d = 0 THEN 0
    ELSE IF a % b = 0 THEN -1
    ELSE IF c % d = 0 THEN 1
    ELSE FracCmp(d, c % d, b, a % b)

Abs(x) == IF x < 0 THEN -x ELSE x

\* The sign of  A^2 * n - (49 * den)^2 * B  for A > 0, without overflow.
SquareCmp(A, n, den, B) ==
    LET k == IF den % 10 = 0 THEN den \div 10 ELSE 1
    IN FracCmp(A, 49 * k * den, (49 * (den \div k)) * B, A * n)

\* With z = 1.96 = 49/25, p = s/n and q = num/den, for n >= 1:
\*   (center -+ spread) / denominator  compared with  q
\*     <=>  A * sqrt(n)  compared with  +-49 * den * sqrt(B)
\* where A = den * (1250 s + 2401) - 2 num * (625 n + 2401)
\*   and B = 2500 s (n - s) + 2401 n.
WilsonA(s, n, num, den) == den * (1250 * s + 2401) - 2 * num * (625 * n + 2401)

WilsonB(s, n) == 2500 * s * (n - s) + 2401 * n

\* The sign of (exact lower bound, before the clamp) - num / den
LowerCmp(ci, num, den) ==
    LET A == WilsonA(ci.successes, ci.total, num, den)
    IN IF A <= 0 THEN -1
       ELSE SquareCmp(A, ci.total, den, WilsonB(ci.successes, ci.total))

\* The sign of (exact upper bound, before the clamp) - num / den
UpperCmp(ci, num, den) ==
    LET A == WilsonA(ci.successes, ci.total, num, den)
    IN IF A >= 0 THEN 1
       ELSE 0 - SquareCmp(Abs(A), ci.total, den, WilsonB(ci.successes, ci.total))

\* WilsonCI.calculate(successes, trials): the interval, kept as its arguments
calculate(successes, trials) == [successes |-> successes, total |-> trials]

\* round(k / n, 3) in thousandths, for n >= 1 (no k / n below lies on a tie)
Round3(k, n) == (2000 * k + n) \div (2 * n)

\* The largest m in lo..hi with  bound >= (2 m - 1) / 2000, given that lo is
\* one; bound is the upper bound of ci when upper, else its lower bound.
RECURSIVE RoundSearch(_, _, _, _)
RoundSearch(ci, upper, lo, hi) ==
    IF lo = hi THEN lo
    ELSE LET mid == (lo + hi + 1) \div 2
             cmp == IF upper THEN UpperCmp(ci, 2 * mid - 1, 2000)
                             ELSE LowerCmp(ci, 2 * mid - 1, 2000)
         IN IF cmp >= 0
            THEN RoundSearch(ci, upper, mid, hi)
            ELSE RoundSearch(ci, upper, lo, mid - 1)

\* round(max(0.0, lower), 3) in thousandths
RoundedLower(ci) == RoundSearch(ci, FALSE, 0, 1000)

\* round(min(1.0, upper), 3) in thousandths
RoundedUpper(ci) == RoundSearch(ci, TRUE, 0, 1000)

\* analyze with the interval taken over the number of distinct labels
analyze_counting_labels(runs) ==
    IF runs = <<>>
    THEN [majority_rate |-> 0, ci_lower |-> 0, ci_upper |-> 0,
          majority_mode |-> "", mode_distribution |-> <<>>, total_runs |-> -1]
    ELSE LET modes == [i \in DOMAIN runs |-> runs[i].decision_mode]
             majority_mode == MostCommon(modes)
             ci == calculate(Cardinality(Range(modes)), Len(runs))
         IN [majority_rate |-> Round3(Count(modes, majority_mode), Len(runs)),
             ci_lower |-> RoundedLower(ci),
             ci_upper |-> RoundedUpper(ci),
             majority_mode |-> majority_mode,
             mode_distribution |-> [m \in Range(modes) |-> Count(modes, m)],
             total_runs |-> Len(runs)]

NoStability ==
    [majority_rate |-> 0, ci_lower |-> 0, ci_upper |-> 0, majority_mode |-> "",
     mode_distribution |-> <<>>, total_runs |-> -1]

\* StabilityAnalyzer.analyze (stability.py 39-78); the three rounded numbers
\* are in thousandths.  The result for no runs has no total_runs.
analyze(runs) ==
    IF runs = <<>> THEN NoStability
    ELSE LET modes == [i \in DOMAIN runs |-> runs[i].decision_mode]
             majority_mode == MostCommon(modes)
             majority_count == Count(modes, majority_mode)
             ci == calculate(majority_count, Len(runs))
         IN [majority_rate |-> Round3(majority_count, Len(runs)),
             ci_lower |-> RoundedLower(ci),
             ci_upper |-> RoundedUpper(ci),
             majority_mode |-> majority_mode,
             mode_distribution |-> [m \in Range(modes) |-> Count(modes, m)],
             total_runs |-> Len(runs)]

NoFinalData ==
    [final_answer |-> <<>>, decision_mode |-> "", used_candidates |-> <<>>,
     stability |-> NoStability, repeats |-> 0]

\* lines 181-208: after the loop
FinishMulti ==
    /\ entry = "run_multi"
    /\ pc = "run_multi"
    /\ Len(results_per_run) = repeats
    /\ stability' = analyze(results_per_run)
    /\ IF results_per_run = <<>>
       THEN /\ Raise("IndexError")
            /\ UNCHANGED <<final_data, memory_file>>
       ELSE LET final_result == results_per_run[Len(results_per_run)]
            IN /\ final_data' = [final_answer |-> final_result.final_answer,
                                 decision_mode |-> final_result.decision_mode,
                                 used_candidates |-> final_result.used_candidates,
                                 stability |-> stability',
                                 repeats |-> repeats]
               /\ memory_file' = model_memory
               /\ pc' = "returned"
               /\ UNCHANGED error
    /\ UNCHANGED <<entry, poolVars, orchVars, stopVars, repeats, results_per_run, auxVars, cacheVars>>

(***************************************************************************)
(* The single-run specification.                                           *)
(***************************************************************************)
\* The reliability store found at construction: w1 has been updated once
\* with reward 1, every other worker is unseen.
InitialMemory ==
    [m \in {"w1"} |-> [n |-> 1, reliability |-> (21 * RelUnit) \div 40]]

\* No function called on its own, no thread inside ModelMemory.
AuxIdle ==
    /\ call_in = <<>>
    /\ call_out = <<>>
    /\ updaters = <<>>

\* No LRUCache in use.
CacheIdle ==
    /\ max_size = 0
    /\ cache = <<>>
    /\ clock = 0

\* No run_multi call in progress.
MultiIdle ==
    /\ repeats = 0
    /\ results_per_run = <<>>
    /\ stability = NoStability
    /\ final_data = NoFinalData
    /\ memory_file = InitialMemory

InitLocals ==
    /\ disagreement_rate = [num |-> 0, den |-> 1]
    /\ candidates_current = <<>>
    /\ arbiter_current = NoArbiterOutput
    /\ round_number = 0
    /\ improved = <<>>
    /\ rebuttal_ok = <<>>
    /\ candidates_r2 = <<>>
    /\ decision_mode = ""
    /\ used_candidates = <<>>
    /\ final_answer = <<>>
    /\ arbiter_calls = 0
    /\ arbiter_raw = "none"
    /\ rebuttal_runs = 0
    /\ consensus_calls = 0
    /\ consensus_raw = "none"

Init ==
    /\ entry = "run_single"
    /\ pc = "run_parallel"
    /\ error = ""
    /\ solvers = <<"w1", "w2">>
    /\ max_workers = DefaultMaxWorkers
    /\ futures = <<>>
    /\ results = <<>>
    /\ consensus_topk \in {1, DefaultConsensusTopK}
    /\ epsilon = DefaultEpsilon
    /\ enable_rebuttal \in BOOLEAN
    /\ disagreement_threshold \in {50, DefaultDisagreementThreshold}
    /\ InitLocals
    /\ model_memory = InitialMemory
    /\ run_log = <<>>
    /\ StopperIdle
    /\ MultiIdle
    /\ AuxIdle
    /\ CacheIdle

Next ==
    \/ Submit
    \/ \E i \in Indices : StartCall(i)
    \/ \E i \in Indices : FinishCall(i)
    \/ \E i \in Indices : AsCompleted(i)
    \/ ReturnResults
    \/ Disagreement
    \/ ArbitrateR1
    \/ Escalate
    \/ RebuttalIteration
    \/ RebuttalReturn
    \/ ArbitrateR2
    \/ TieBreak
    \/ UpdateMemory
    \/ EmitRecords

Spec == Init /\ [][Next]_vars

(***************************************************************************)
(* The Solver Pool called on its own.                                      *)
(***************************************************************************)
InitPool ==
    /\ entry = "run_parallel"
    /\ pc = "run_parallel"
    /\ error = ""
    /\ \E n \in 1..MaxRoster : solvers = [i \in 1..n |-> WorkerName(i)]
    /\ max_workers \in {2, DefaultMaxWorkers}
    /\ futures = <<>>
    /\ results = <<>>
    /\ consensus_topk = DefaultConsensusTopK
    /\ epsilon = DefaultEpsilon
    /\ enable_rebuttal = TRUE
    /\ disagreement_threshold = DefaultDisagreementThreshold
    /\ InitLocals
    /\ model_memory = InitialMemory
    /\ run_log = <<>>
    /\ StopperIdle
    /\ MultiIdle
    /\ AuxIdle
    /\ CacheIdle

NextPool ==
    \/ Submit
    \/ \E i \in Indices : StartCall(i)
    \/ \E i \in Indices : FinishCall(i)
    \/ \E i \in Indices : AsCompleted(i)
    \/ ReturnResults

SpecPool == InitPool /\ [][NextPool]_vars

\* The executor's threads take queued work while a thread is free, every
\* worker call comes back (with a response, an error or its timeout), and
\* the calling thread runs its loop.
SpecPoolFair == SpecPool /\ WF_vars(NextPool)

(***************************************************************************)
(* The Rebuttal Round called on its own (rebuttal.py 29-79), with the      *)
(* provider call of an iteration as a step that starts and a step that     *)
(* comes back.  call_in holds the prompt of the call in flight.            *)
(***************************************************************************)
\* lines 31 and 39-50: what the prompt for own_output is built from
RebuttalPrompt(all_outputs, own_output) ==
    [own |-> own_output,
     others |-> SelectSeq(all_outputs, LAMBDA o : o.model_id # own_output.model_id)]

RebuttalFrame ==
    <<entry, error, poolVars, argVars, disagreement_rate, candidates_current,
      arbiter_current, round_number, decision_mode, used_candidates, final_answer,
      callVars, durableVars, stopVars, multiVars, call_out, updaters, cacheVars>>

\* for own_output in all_outputs: ... provider.generate(...) is entered
RebuttalCallStart ==
    /\ entry = "rebuttal_run"
    /\ pc = "rebuttal_loop"
    /\ call_in = <<>>
    /\ Len(improved) < Len(candidates_current)
    /\ call_in' = RebuttalPrompt(candidates_current,
                                 candidates_current[Len(improved) + 1])
    /\ UNCHANGED <<pc, improved, rebuttal_ok, candidates_r2, RebuttalFrame>>

\* provider.generate(...) comes back; lines 59-77
RebuttalCallFinish ==
    /\ entry = "rebuttal_run"
    /\ pc = "rebuttal_loop"
    /\ call_in # <<>>
    /\ \E raw \in RawSolverResponses :
         /\ improved' = rebuttal_step(improved, call_in.own, raw)
         /\ rebuttal_ok' = Append(rebuttal_ok, raw.kind = "ok")
    /\ call_in' = <<>>
    /\ UNCHANGED <<pc, candidates_r2, RebuttalFrame>>

\* return improved
RebuttalRunReturn ==
    /\ entry = "rebuttal_run"
    /\ pc = "rebuttal_loop"
    /\ call_in = <<>>
    /\ Len(improved) = Len(candidates_current)
    /\ candidates_r2' = improved
    /\ pc' = "returned"
    /\ UNCHANGED <<call_in, improved, rebuttal_ok, RebuttalFrame>>

\* The candidate sets of a first round: one candidate per worker.
PriorRoundCandidates ==
    UNION { { [i \in 1..n |-> SolverOutput(WorkerName(i), p[i], 1)] :
                p \in [1..n -> SolverPayloads] } : n \in 1..MaxRoster }

InitRebuttal ==
    /\ entry = "rebuttal_run"
    /\ pc = "rebuttal_loop"
    /\ error = ""
    /\ solvers = <<"w1", "w2">>
    /\ max_workers = DefaultMaxWorkers
    /\ futures = <<>>
    /\ results = <<>>
    /\ consensus_topk = DefaultConsensusTopK
    /\ epsilon = DefaultEpsilon
    /\ enable_rebuttal = TRUE
    /\ disagreement_threshold = DefaultDisagreementThreshold
    /\ disagreement_rate = [num |-> 0, den |-> 1]
    /\ candidates_current \in PriorRoundCandidates
    /\ arbiter_current = NoArbiterOutput
    /\ round_number = 1
    /\ improved = <<>>
    /\ rebuttal_ok = <<>>
    /\ candidates_r2 = <<>>
    /\ decision_mode = ""
    /\ used_candidates = <<>>
    /\ final_answer = <<>>
    /\ arbiter_calls = 1
    /\ arbiter_raw = "ok"
    /\ rebuttal_runs = 1
    /\ consensus_calls = 0
    /\ consensus_raw = "none"
    /\ model_memory = InitialMemory
    /\ run_log = <<>>
    /\ StopperIdle
    /\ MultiIdle
    /\ AuxIdle
    /\ CacheIdle

NextRebuttal ==
    \/ RebuttalCallStart
    \/ RebuttalCallFinish
    \/ RebuttalRunReturn

SpecRebuttal == InitRebuttal /\ [][NextRebuttal]_vars

(***************************************************************************)

(* The Early Stopper and the Adaptive Run Manager called on their own.     *)
(***************************************************************************)
StopperConfigs ==
    [min_runs : {1, DefaultMinRuns},
     confidence_threshold : {50, DefaultConfidenceThreshold},
     convergence_threshold : {DefaultConvergenceThreshold, 90},
     stability_window : {DefaultStabilityWindow},
     enable_adaptive : BOOLEAN]

\* AdaptiveRunManager.__init__, lines 198-211
ManagerConfig(lo, target) ==
    [DefaultConfig EXCEPT !.min_runs = lo, !.confidence_threshold = target]

InitStopper ==
    /\ entry \in {"record_run", "should_continue"}
    /\ pc = "idle"
    /\ error = ""
    /\ solvers = <<"w1", "w2">>
    /\ max_workers = DefaultMaxWorkers
    /\ futures = <<>>
    /\ results = <<>>
    /\ consensus_topk = DefaultConsensusTopK
    /\ epsilon = DefaultEpsilon
    /\ enable_rebuttal = TRUE
    /\ disagreement_threshold = DefaultDisagreementThreshold
    /\ InitLocals
    /\ model_memory = InitialMemory
    /\ run_log = <<>>
    /\ IF entry = "record_run"
       THEN /\ config \in StopperConfigs
            /\ max_runs = DefaultMaxRuns
            /\ min_runs = DefaultManagerMinRuns
       ELSE /\ max_runs \in {2, 4, DefaultMaxRuns}
            /\ min_runs \in {1, DefaultManagerMinRuns}
            /\ \E target \in {50, DefaultTargetConfidence} :
                  config = ManagerConfig(min_runs, target)
    /\ run_history = <<>>
    /\ stability_streak = 0
    /\ last_dominant = None
    /\ decision = NoDecision
    /\ continues = TRUE
    /\ MultiIdle
    /\ AuxIdle
    /\ CacheIdle

NextStopper ==
    \/ RecordRun
    \/ Reset
    \/ ShouldContinue
    \/ StartProblem

SpecStopper == InitStopper /\ [][NextStopper]_vars

(***************************************************************************)
(* The callers that record saved runs: check_early_stop on the singleton   *)
(* stopper, and a run manager.                                             *)
(***************************************************************************)
InitEarlyStop ==
    /\ entry \in {"check_early_stop", "should_continue"}
    /\ pc = "idle"
    /\ error = ""
    /\ solvers = <<"w1", "w2">>
    /\ max_workers = DefaultMaxWorkers
    /\ futures = <<>>
    /\ results = <<>>
    /\ consensus_topk = DefaultConsensusTopK
    /\ epsilon = DefaultEpsilon
    /\ enable_rebuttal = TRUE
    /\ disagreement_threshold = DefaultDisagreementThreshold
    /\ InitLocals
    /\ model_memory = InitialMemory
    /\ run_log = <<>>
    /\ IF entry = "check_early_stop"
       THEN /\ config = DefaultConfig
            /\ max_runs = DefaultMaxRuns
            /\ min_runs = DefaultManagerMinRuns
       ELSE /\ max_runs \in {4, DefaultMaxRuns}
            /\ min_runs \in {1, DefaultManagerMinRuns}
            /\ config = ManagerConfig(min_runs, DefaultTargetConfidence)
    /\ run_history = <<>>
    /\ stability_streak = 0
    /\ last_dominant = None
    /\ decision = NoDecision
    /\ continues = TRUE
    /\ MultiIdle
    /\ AuxIdle
    /\ CacheIdle

NextEarlyStop ==
    \/ CheckEarlyStop
    \/ ShouldContinue
    \/ StartProblem

SpecEarlyStop == InitEarlyStop /\ [][NextEarlyStop]_vars

(***************************************************************************)
(* The multi-run loop.                                                     *)
(***************************************************************************)
InitMulti ==
    /\ entry = "run_multi"
    /\ pc = "run_multi"
    /\ error = ""
    /\ solvers = <<"w1", "w2">>
    /\ max_workers = DefaultMaxWorkers
    /\ futures = <<>>
    /\ results = <<>>
    /\ consensus_topk = DefaultConsensusTopK
    /\ epsilon = DefaultEpsilon
    /\ enable_rebuttal = TRUE
    /\ disagreement_threshold = DefaultDisagreementThreshold
    /\ InitLocals
    /\ model_memory = InitialMemory
    /\ run_log = <<>>
    /\ StopperIdle
    /\ repeats \in 0..MaxRepeats
    /\ results_per_run = <<>>
    /\ stability = NoStability
    /\ final_data = NoFinalData
    /\ memory_file = InitialMemory
    /\ AuxIdle
    /\ CacheIdle

NextMulti ==
    \/ RunIteration
    \/ FinishMulti

SpecMulti == InitMulti /\ [][NextMulti]_vars

(***************************************************************************)
(* The statistics called on their own: WilsonCI.calculate (stability.py    *)
(* 11-31) and EarlyStopper._wilson_ci (early_stopping.py 62-94).  Both     *)
(* compute the same interval in binary floating point.  The exact value of *)
(* a bound is compared with a rational by integer algebra; the float the   *)
(* code returns is that value up to the rounding of the last operations,   *)
(* which is not determined here: it is the exact value moved by -1, 0 or   *)
(* +1 units in the last place, then clamped by max(0.0, .) or min(1.0, .). *)
(***************************************************************************)
\* Most trials a Wilson function is called with.
MaxTrials == 12

Ulps == {-1, 0, 1}

Sign(x) == IF x > 0 THEN 1 ELSE IF x < 0 THEN -1 ELSE 0

\* The floats a Wilson function can return for the exact interval ci: each
\* bound with its rounding error in units in the last place, after the clamp.
\* For trials = 0 the code returns the constants (0.0, 0.0).
FloatIntervals(ci) ==
    IF ci.total = 0
    THEN { [ci |-> ci, lower_ulps |-> 0, upper_ulps |-> 0] }
    ELSE { [ci |-> ci,
            lower_ulps |-> IF LowerCmp(ci, 0, 1) = 0 /\ a < 0 THEN 0 ELSE a,
            upper_ulps |-> IF UpperCmp(ci, 1, 1) = 0 /\ b > 0 THEN 0 ELSE b]
           : a \in Ulps, b \in Ulps }

\* The sign of (returned lower bound) - num / den
FloatLowerCmp(r, num, den) ==
    IF r.ci.total = 0 THEN Sign(0 - num)
    ELSE IF LowerCmp(r.ci, 0, 1) < 0 THEN Sign(0 - num)
    ELSE IF LowerCmp(r.ci, num, den) # 0 THEN LowerCmp(r.ci, num, den)
    ELSE r.lower_ulps

\* The sign of (returned upper bound) - num / den
FloatUpperCmp(r, num, den) ==
    IF r.ci.total = 0 THEN Sign(0 - num)
    ELSE IF UpperCmp(r.ci, 1, 1) > 0 THEN Sign(den - num)
    ELSE IF UpperCmp(r.ci, num, den) # 0 THEN UpperCmp(r.ci, num, den)
    ELSE r.upper_ulps

WilsonFunctions == {"WilsonCI.calculate", "EarlyStopper._wilson_ci"}

WilsonCalls ==
    { [fn |-> f, successes |-> s, trials |-> n] :
        f \in WilsonFunctions, s \in 0..MaxTrials, n \in 0..MaxTrials }

CallFrame == <<entry, error, poolVars, orchVars, stopVars, multiVars, updaters, call_in,
              cacheVars>>

\* lower, upper = WilsonCI.calculate(s, n)  or  stopper._wilson_ci(s, n)
CallWilson ==
    /\ entry = "wilson"
    /\ pc = "call"
    /\ call_out' \in FloatIntervals(
           IF call_in.fn = "WilsonCI.calculate"
           THEN calculate(call_in.successes, call_in.trials)
           ELSE wilson_ci(call_in.successes, call_in.trials))
    /\ pc' = "returned"
    /\ UNCHANGED CallFrame

\* The counts both Wilson functions are called with.
WilsonCounts ==
    { [successes |-> s, trials |-> n] : s \in 0..MaxTrials, n \in 0..MaxTrials }

\* stability = WilsonCI.calculate(s, n); early = stopper._wilson_ci(s, n)
\* The two functions round in different operations (calculate divides the
\* centre and the deviation by the denominator before it adds them,
\* _wilson_ci divides their sum), so each result has its own rounding error.
CallBothWilson ==
    /\ entry = "wilson_both"
    /\ pc = "call"
    /\ \E st \in FloatIntervals(calculate(call_in.successes, call_in.trials)),
          es \in FloatIntervals(wilson_ci(call_in.successes, call_in.trials)) :
          call_out' = [stability |-> st, early |-> es]
    /\ pc' = "returned"
    /\ UNCHANGED CallFrame

\* Most runs StabilityAnalyzer.analyze is called with.
MaxOutcomes == 5

DecisionModes == {"hard_select", "consensus_top2"}

\* results_per_run as analyze reads it: the decision_mode of each run
AnalyzeCalls ==
    UNION { [1..n -> [decision_mode : DecisionModes]] : n \in 0..MaxOutcomes }

\* stability = analyzer.analyze(results_per_run)
CallAnalyze ==
    /\ entry = "analyze"
    /\ pc = "call"
    /\ call_out' = analyze(call_in)
    /\ pc' = "returned"
    /\ UNCHANGED CallFrame

\* Most candidates the disagreement check is given.
MaxCandidates == 7

CandidateAnswers == { <<"a">>, <<"b">>, <<"c">> }

\* candidates_r1 as the disagreement check reads it: the final answers
DisagreementCalls ==
    UNION { [1..n -> [final_answer : CandidateAnswers]] : n \in 1..MaxCandidates }

\* orchestrator.py 55-57 and 70 on the candidates call_in: the rate, and
\* whether the Rebuttal Round is entered once the first arbitration returned.
CallDisagreement ==
    /\ entry = "disagreement"
    /\ pc = "call"
    /\ call_out' =
          [disagreement_rate |-> DisagreementRate(call_in),
           rebuttal |-> escalates(enable_rebuttal, DisagreementRate(call_in),
                                  disagreement_threshold)]
    /\ pc' = "returned"
    /\ UNCHANGED CallFrame

\* The stopper's fields as get_stats can find them: an empty history with
\* streak 0 (after construction or reset), or a recorded history.
StatsCalls ==
    UNION { { [run_history |-> h, stability_streak |-> k] :
                h \in [1..n -> CandidateAnswers],
                k \in IF n = 0 THEN {0} ELSE 1..n } : n \in 0..MaxOutcomes }

\* A variant of get_stats that reports an empty history as fully converged.
get_stats_empty_converged(stopper) ==
    IF stopper.run_history = <<>>
    THEN [runs |-> 0, convergence |-> [num |-> 1, den |-> 1], dominant |-> None]
    ELSE LET dominant == MostCommon(stopper.run_history)
             count == Count(stopper.run_history, dominant)
         IN [runs |-> Len(stopper.run_history),
             convergence |-> [num |-> count, den |-> Len(stopper.run_history)],
             dominant_count |-> count,
             unique_answers |-> Cardinality(Range(stopper.run_history)),
             stability_streak |-> stopper.stability_streak,
             ci |-> wilson_ci(count, Len(stopper.run_history))]

\* EarlyStopper.get_stats (early_stopping.py 172-187)
get_stats(stopper) ==
    IF stopper.run_history = <<>>
    THEN [runs |-> 0, convergence |-> [num |-> 0, den |-> 1], dominant |-> None]
    ELSE LET dominant == MostCommon(stopper.run_history)
             count == Count(stopper.run_history, dominant)
         IN [runs |-> Len(stopper.run_history),
             convergence |-> [num |-> count, den |-> Len(stopper.run_history)],
             dominant_count |-> count,
             unique_answers |-> Cardinality(Range(stopper.run_history)),
             stability_streak |-> stopper.stability_streak,
             ci |-> wilson_ci(count, Len(stopper.run_history))]

\* stats = stopper.get_stats()
CallGetStats ==
    /\ entry = "get_stats"
    /\ pc = "call"
    /\ call_out' = get_stats(call_in)
    /\ pc' = "returned"
    /\ UNCHANGED CallFrame

InitCalls ==
    /\ entry \in {"wilson", "analyze", "disagreement", "get_stats", "wilson_both"}
    /\ pc = "call"
    /\ error = ""
    /\ solvers = <<"w1", "w2">>
    /\ max_workers = DefaultMaxWorkers
    /\ futures = <<>>
    /\ results = <<>>
    /\ consensus_topk = DefaultConsensusTopK
    /\ epsilon = DefaultEpsilon
    /\ enable_rebuttal \in BOOLEAN
    /\ disagreement_threshold = DefaultDisagreementThreshold
    /\ InitLocals
    /\ model_memory = InitialMemory
    /\ run_log = <<>>
    /\ StopperIdle
    /\ MultiIdle
    /\ updaters = <<>>
    /\ CacheIdle
    /\ call_out = <<>>
    /\ CASE entry = "wilson" ->
              /\ call_in \in {c \in WilsonCalls : c.successes <= c.trials}
              /\ enable_rebuttal
         [] entry = "analyze" ->
              /\ call_in \in AnalyzeCalls
              /\ enable_rebuttal
         [] entry = "wilson_both" ->
              /\ call_in \in {c \in WilsonCounts : c.successes <= c.trials}
              /\ enable_rebuttal
         [] entry = "disagreement" ->
              /\ call_in \in DisagreementCalls
         [] entry = "get_stats" ->
              /\ call_in \in StatsCalls
              /\ enable_rebuttal

NextCalls ==
    \/ CallWilson
    \/ CallAnalyze
    \/ CallDisagreement
    \/ CallGetStats
    \/ CallBothWilson

SpecCalls == InitCalls /\ [][NextCalls]_vars

(***************************************************************************)
(* ModelMemory shared by concurrent callers (model_memory.py 26-44).  The  *)
(* class holds no lock: a thread can be preempted between any two reads    *)
(* and writes of update_reliability, and save can run at any moment.  The  *)
(* local s of line 40 is a reference to the worker's dict: while that dict *)
(* is the one in self.state the thread is "shared"; once another thread    *)
(* has replaced it (line 38) the reference is to an "orphan" dict.         *)
(***************************************************************************)
\* Most threads inside update_reliability at once.
MaxUpdaters == 2

Threads == DOMAIN updaters

IdleUpdater(model_id, reward) ==
    [pc |-> "check", model_id |-> model_id, reward |-> reward,
     s |-> "none", own |-> FreshEntry, tmp |-> 0]

\* The dict the thread's s refers to.
Referent(t) ==
    IF updaters[t].s = "shared" THEN model_memory[updaters[t].model_id]
    ELSE updaters[t].own

\* s[field] = value, through the reference
WriteThrough(t, e, next_pc) ==
    IF updaters[t].s = "shared"
    THEN /\ model_memory' = [model_memory EXCEPT ![updaters[t].model_id] = e]
         /\ updaters' = [updaters EXCEPT ![t].pc = next_pc]
    ELSE /\ updaters' = [updaters EXCEPT ![t].pc = next_pc, ![t].own = e]
         /\ UNCHANGED model_memory

UpdaterFrame == <<entry, pc, error, poolVars, argVars, localVars, callVars, run_log,
                  stopVars, repeats, results_per_run, stability, final_data,
                  call_in, call_out, cacheVars>>

\* line 37: if model_id not in self.state
CheckEntry(t) ==
    /\ entry = "update_reliability"
    /\ updaters[t].pc = "check"
    /\ updaters' = [updaters EXCEPT ![t].pc =
                       IF updaters[t].model_id \in DOMAIN model_memory
                       THEN "bind" ELSE "insert"]
    /\ UNCHANGED <<UpdaterFrame, model_memory, memory_file>>

\* line 38: self.state[model_id] = {"n": 0, "reliability": 0.5}; the threads
\* that hold the dict it replaces are left with an orphan.
InsertEntry(t) ==
    /\ entry = "update_reliability"
    /\ updaters[t].pc = "insert"
    /\ LET m == updaters[t].model_id
       IN /\ model_memory' = [x \in DOMAIN model_memory \cup {m} |->
                                 IF x = m THEN FreshEntry ELSE model_memory[x]]
          /\ updaters' = [u \in Threads |->
                IF u = t THEN [updaters[u] EXCEPT !.pc = "bind"]
                ELSE IF updaters[u].model_id = m /\ updaters[u].s = "shared"
                THEN [updaters[u] EXCEPT !.s = "orphan", !.own = model_memory[m]]
                ELSE updaters[u]]
    /\ UNCHANGED <<UpdaterFrame, memory_file>>

\* line 40: s = self.state[model_id]
BindEntry(t) ==
    /\ entry = "update_reliability"
    /\ updaters[t].pc = "bind"
    /\ updaters' = [updaters EXCEPT ![t].pc = "read_n", ![t].s = "shared"]
    /\ UNCHANGED <<UpdaterFrame, model_memory, memory_file>>

\* line 41, s["n"] += 1: the read
ReadCount(t) ==
    /\ entry = "update_reliability"
    /\ updaters[t].pc = "read_n"
    /\ updaters' = [updaters EXCEPT ![t].pc = "write_n", ![t].tmp = Referent(t).n]
    /\ UNCHANGED <<UpdaterFrame, model_memory, memory_file>>

\* line 41, s["n"] += 1: the write
WriteCount(t) ==
    /\ entry = "update_reliability"
    /\ updaters[t].pc = "write_n"
    /\ WriteThrough(t, [Referent(t) EXCEPT !.n = updaters[t].tmp + 1], "read_r")
    /\ UNCHANGED <<UpdaterFrame, memory_file>>

\* line 42: the read of s["reliability"]
ReadReliability(t) ==
    /\ entry = "update_reliability"
    /\ updaters[t].pc = "read_r"
    /\ updaters' = [updaters EXCEPT ![t].pc = "write_r",
                                    ![t].tmp = Referent(t).reliability]
    /\ UNCHANGED <<UpdaterFrame, model_memory, memory_file>>

\* line 42: s["reliability"] = (1 - lr) * float(...) + lr * float(reward)
WriteReliability(t) ==
    /\ entry = "update_reliability"
    /\ updaters[t].pc = "write_r"
    /\ WriteThrough(t,
          [Referent(t) EXCEPT !.reliability =
              ((100 - DefaultLearningRate) * updaters[t].tmp
               + DefaultLearningRate * updaters[t].reward * RelUnit) \div 100],
          "done")
    /\ UNCHANGED <<UpdaterFrame, memory_file>>

\* save, lines 26-30: json.dump(self.state), called by any thread at any time
Save ==
    /\ entry = "update_reliability"
    /\ memory_file # model_memory
    /\ memory_file' = model_memory
    /\ UNCHANGED <<UpdaterFrame, model_memory, updaters>>

InitMemory ==
    /\ entry = "update_reliability"
    /\ pc = "idle"
    /\ error = ""
    /\ solvers = <<"w1", "w2">>
    /\ max_workers = DefaultMaxWorkers
    /\ futures = <<>>
    /\ results = <<>>
    /\ consensus_topk = DefaultConsensusTopK
    /\ epsilon = DefaultEpsilon
    /\ enable_rebuttal = TRUE
    /\ disagreement_threshold = DefaultDisagreementThreshold
    /\ InitLocals
    /\ model_memory = InitialMemory
    /\ run_log = <<>>
    /\ StopperIdle
    /\ MultiIdle
    /\ call_in = <<>>
    /\ call_out = <<>>
    /\ updaters \in [1..MaxUpdaters ->
                        {IdleUpdater(m, r) : m \in {"w1", "w2"}, r \in {0, 1}}]
    /\ CacheIdle

NextMemory ==
    \/ \E t \in Threads : CheckEntry(t)
    \/ \E t \in Threads : InsertEntry(t)
    \/ \E t \in Threads : BindEntry(t)
    \/ \E t \in Threads : ReadCount(t)
    \/ \E t \in Threads : WriteCount(t)
    \/ \E t \in Threads : ReadReliability(t)
    \/ \E t \in Threads : WriteReliability(t)
    \/ Save

SpecMemory == InitMemory /\ [][NextMemory]_vars

(***************************************************************************)
(* ModelMemory used by one caller (model_memory.py 11-54): construction    *)
(* over the store found on disk, then reads, updates and saves in any      *)
(* order.  call_in holds the store as construction finds it, call_out the  *)
(* latest call and what it returned.                                       *)
(***************************************************************************)
\* How many updates one ModelMemory object receives.
MaxUpdates == 3

\* The rewards and learning rates passed to update_reliability, in hundredths.
Rewards == {0, 50, 100}
LearningRates == {0, DefaultLearningRate, 100}

\* The model ids the caller asks about.
StoreWorkers == {"w1", "w2"}

\* self.state when json.load returned null: no mapping at all.  It is kept
\* as a mapping under a key no model id can take, so that it can be told
\* from every reliability mapping.
NoneState == [m \in {"<None>"} |-> [n |-> 0, reliability |-> 0]]

\* The store at memory_path as __init__ can find it: no file; a file that
\* open or json.load raises on (empty, truncated, not UTF-8); a file that
\* json.load parses, holding either a reliability mapping or another JSON
\* value (null stands for these).
Stores ==
    {[kind |-> "missing", content |-> <<>>],
     [kind |-> "unparseable", content |-> <<>>],
     [kind |-> "json", content |-> InitialMemory],
     [kind |-> "json", content |-> NoneState]}

\* _load, lines 15-24: {} when the path does not exist or when open/json.load
\* raises; otherwise whatever json.load returned.
load(store) ==
    IF store.kind = "json" THEN store.content ELSE <<>>

\* A variant of the read that answers 0 for an unseen worker.
get_reliability_zero_default(state, model_id) ==
    IF model_id \in DOMAIN state THEN state[model_id].reliability ELSE 0

\* get_reliability, lines 46-50, for a state that is a mapping
get_reliability(state, model_id) ==
    IF model_id \in DOMAIN state THEN state[model_id].reliability ELSE RelUnit \div 2

\* A variant of the update that counts a worker's first update twice.
update_reliability_lr_counting_insert(state, model_id, reward, lr) ==
    LET s == IF model_id \in DOMAIN state THEN state[model_id]
             ELSE [n |-> 1, reliability |-> RelUnit \div 2]
        t == [n |-> s.n + 1,
              reliability |-> ((100 - lr) * s.reliability) \div 100
                              + lr * reward * (RelUnit \div 10000)]
    IN [m \in DOMAIN state \cup {model_id} |-> IF m = model_id THEN t ELSE state[m]]

\* update_reliability(model_id, reward, lr), lines 32-44, with reward and lr
\* in hundredths, for a state that is a mapping
update_reliability_lr(state, model_id, reward, lr) ==
    LET s == IF model_id \in DOMAIN state THEN state[model_id] ELSE FreshEntry
        t == [n |-> s.n + 1,
              reliability |-> ((100 - lr) * s.reliability) \div 100
                              + lr * reward * (RelUnit \div 10000)]
    IN [m \in DOMAIN state \cup {model_id} |-> IF m = model_id THEN t ELSE state[m]]

\* What the calls of this section leave alone.
StoreFrame == <<entry, poolVars, argVars, localVars, callVars, run_log, stopVars,
                repeats, results_per_run, stability, final_data, call_in, updaters,
                cacheVars>>

\* The updates this object has applied so far.
RECURSIVE TrialsIn(_, _)
TrialsIn(state, ids) ==
    IF ids = {} THEN 0
    ELSE LET m == CHOOSE x \in ids : TRUE
         IN state[m].n + TrialsIn(state, ids \ {m})

UpdatesApplied ==
    TrialsIn(model_memory, DOMAIN model_memory)
    - TrialsIn(load(call_in), DOMAIN load(call_in))

\* __init__, lines 11-13: self.state = self._load()
Construct ==
    /\ entry = "model_memory"
    /\ pc = "new"
    /\ model_memory' = load(call_in)
    /\ pc' = "ready"
    /\ UNCHANGED <<StoreFrame, error, memory_file, call_out>>

\* get_reliability(model_id), lines 46-50: `model_id in self.state` raises
\* TypeError when the state is None.
GetReliability ==
    /\ entry = "model_memory"
    /\ pc = "ready"
    /\ \E model_id \in StoreWorkers :
          IF model_memory = NoneState
          THEN /\ Raise("TypeError")
               /\ call_out' = [fn |-> "get_reliability", model_id |-> model_id,
                               value |-> -1]
          ELSE /\ call_out' = [fn |-> "get_reliability", model_id |-> model_id,
                               value |-> get_reliability(model_memory, model_id)]
               /\ UNCHANGED <<pc, error>>
    /\ UNCHANGED <<StoreFrame, model_memory, memory_file>>

\* update_reliability(model_id, reward, lr), lines 32-44: `model_id not in
\* self.state` raises TypeError when the state is None.
UpdateReliability ==
    /\ entry = "model_memory"
    /\ pc = "ready"
    /\ \E model_id \in StoreWorkers, reward \in Rewards, lr \in LearningRates :
          /\ call_out' = [fn |-> "update_reliability", model_id |-> model_id,
                          value |-> -1]
          /\ IF model_memory = NoneState
             THEN /\ Raise("TypeError")
                  /\ UNCHANGED model_memory
             ELSE /\ UpdatesApplied < MaxUpdates
                  /\ model_memory' =
                        update_reliability_lr(model_memory, model_id, reward, lr)
                  /\ UNCHANGED <<pc, error>>
    /\ UNCHANGED <<StoreFrame, memory_file>>

\* save, lines 26-30: json.dump(self.state) into the file, whatever the state
StoreSave ==
    /\ entry = "model_memory"
    /\ pc = "ready"
    /\ memory_file' = model_memory
    /\ call_out' = [fn |-> "save", model_id |-> "", value |-> -1]
    /\ UNCHANGED <<StoreFrame, pc, error, model_memory>>

InitStore ==
    /\ entry = "model_memory"
    /\ pc = "new"
    /\ error = ""
    /\ solvers = <<"w1", "w2">>
    /\ max_workers = DefaultMaxWorkers
    /\ futures = <<>>
    /\ results = <<>>
    /\ consensus_topk = DefaultConsensusTopK
    /\ epsilon = DefaultEpsilon
    /\ enable_rebuttal = TRUE
    /\ disagreement_threshold = DefaultDisagreementThreshold
    /\ InitLocals
    /\ model_memory = <<>>
    /\ run_log = <<>>
    /\ StopperIdle
    /\ MultiIdle
    /\ call_in \in Stores
    /\ call_out = <<>>
    /\ updaters = <<>>
    /\ CacheIdle

NextStore ==
    \/ Construct
    \/ GetReliability
    \/ UpdateReliability
    \/ StoreSave

SpecStore == InitStore /\ [][NextStore]_vars

(***************************************************************************)
(* LRUCache (cache.py 76-180) used under its lock: every method body is    *)
(* one step.  An entry is its key and its expiry; the stored value, the    *)
(* hit counters and the statistics are read by no branch and left out.     *)
(* call_out holds the latest call, whether it found the key, and the keys  *)
(* popitem removed during it.                                              *)
(***************************************************************************)
\* Largest max_size a cache is constructed with, and the last clock reading.
MaxCacheSize == 2
MaxClock == 2

\* cache.py:84  default_ttl = 3600
DefaultTtl == 3600

CacheKeys == {"k1", "k2", "k3"}

\* The ttl argument of set: None, 0 or one clock unit.
NoTtl == -1
Ttls == {NoTtl, 0, 1}

\* expires_at is None
NoExpiry == -1

KeysOf(c) == [i \in DOMAIN c |-> c[i].key]

\* The entries of c other than those under the keys ks, in their order.
RECURSIVE Without(_, _)
Without(c, ks) ==
    IF c = <<>> THEN <<>>
    ELSE IF Head(c).key \in ks THEN Without(Tail(c), ks)
    ELSE <<Head(c)>> \o Without(Tail(c), ks)

EntryUnder(c, key) == c[CHOOSE i \in DOMAIN c : c[i].key = key]

\* CacheEntry.is_expired, lines 40-44
is_expired(e, now) == e.expires_at # NoExpiry /\ now > e.expires_at

\* lines 125-126: the expiry of a new entry
ExpiresAt(ttl, now) ==
    LET actual_ttl == IF ttl # NoTtl THEN ttl ELSE DefaultTtl
    IN IF actual_ttl # 0 THEN now + actual_ttl ELSE NoExpiry

\* get, lines 98-116: the cache after the call and whether a value came back
cache_get(c, key, now) ==
    IF key \notin Range(KeysOf(c)) THEN [cache |-> c, hit |-> FALSE]
    ELSE IF is_expired(EntryUnder(c, key), now)
    THEN [cache |-> Without(c, {key}), hit |-> FALSE]
    ELSE [cache |-> Without(c, {key}) \o <<EntryUnder(c, key)>>, hit |-> TRUE]

\* lines 142-144: while len(self._cache) >= self.max_size: popitem(last=False),
\* for a max_size of at least 1
RECURSIVE Evict(_, _)
Evict(c, size) == IF Len(c) >= size THEN Evict(Tail(c), size) ELSE c

\* A variant of set that overwrites an existing key where it stands.
cache_set_in_place(c, size, key, expires_at) ==
    LET e == [key |-> key, expires_at |-> expires_at]
    IN IF key \in Range(KeysOf(c))
       THEN [i \in DOMAIN c |-> IF c[i].key = key THEN e ELSE c[i]]
       ELSE Evict(c, size) \o <<e>>

\* set, lines 118-147, for a max_size of at least 1
cache_set(c, size, key, expires_at) ==
    LET e == [key |-> key, expires_at |-> expires_at]
    IN IF key \in Range(KeysOf(c))
       THEN Without(c, {key}) \o <<e>>
       ELSE Evict(c, size) \o <<e>>

CacheFrame == <<entry, poolVars, orchVars, stopVars, multiVars, call_in, updaters,
                max_size>>

CacheGet ==
    /\ entry = "lru_cache"
    /\ pc = "ready"
    /\ \E key \in CacheKeys :
          LET r == cache_get(cache, key, clock)
          IN /\ cache' = r.cache
             /\ call_out' = [fn |-> "get", key |-> key, hit |-> r.hit, evicted |-> {}]
    /\ UNCHANGED <<CacheFrame, pc, error, clock>>

\* set: with max_size 0 the eviction loop calls popitem on an empty
\* OrderedDict, which raises KeyError.
CacheSet ==
    /\ entry = "lru_cache"
    /\ pc = "ready"
    /\ \E key \in CacheKeys, ttl \in Ttls :
          IF key \notin Range(KeysOf(cache)) /\ max_size <= 0
          THEN /\ Raise("KeyError")
               /\ cache' = <<>>
               /\ call_out' = [fn |-> "set", key |-> key, hit |-> FALSE,
                               evicted |-> Range(KeysOf(cache))]
          ELSE /\ cache' = cache_set(cache, max_size, key, ExpiresAt(ttl, clock))
               /\ call_out' = [fn |-> "set", key |-> key,
                               hit |-> key \in Range(KeysOf(cache)),
                               evicted |-> Range(KeysOf(cache))
                                           \ Range(KeysOf(cache'))]
               /\ UNCHANGED <<pc, error>>
    /\ UNCHANGED <<CacheFrame, clock>>

\* delete, lines 149-156
CacheDelete ==
    /\ entry = "lru_cache"
    /\ pc = "ready"
    /\ \E key \in CacheKeys :
          /\ cache' = Without(cache, {key})
          /\ call_out' = [fn |-> "delete", key |-> key,
                          hit |-> key \in Range(KeysOf(cache)), evicted |-> {}]
    /\ UNCHANGED <<CacheFrame, pc, error, clock>>

\* clear, lines 158-162
CacheClear ==
    /\ entry = "lru_cache"
    /\ pc = "ready"
    /\ cache' = <<>>
    /\ call_out' = [fn |-> "clear", key |-> "", hit |-> FALSE, evicted |-> {}]
    /\ UNCHANGED <<CacheFrame, pc, error, clock>>

\* cleanup_expired, lines 164-176
CleanupExpired ==
    /\ entry = "lru_cache"
    /\ pc = "ready"
    /\ cache' = Without(cache, {cache[i].key : i \in {j \in DOMAIN cache :
                                                   is_expired(cache[j], clock)}})
    /\ call_out' = [fn |-> "cleanup_expired", key |-> "", hit |-> FALSE, evicted |-> {}]
    /\ UNCHANGED <<CacheFrame, pc, error, clock>>

\* time passes between two calls
Tick ==
    /\ entry = "lru_cache"
    /\ pc = "ready"
    /\ clock < MaxClock
    /\ clock' = clock + 1
    /\ UNCHANGED <<CacheFrame, pc, error, cache, call_out>>

InitCache ==
    /\ entry = "lru_cache"
    /\ pc = "ready"
    /\ error = ""
    /\ solvers = <<"w1", "w2">>
    /\ max_workers = DefaultMaxWorkers
    /\ futures = <<>>
    /\ results = <<>>
    /\ consensus_topk = DefaultConsensusTopK
    /\ epsilon = DefaultEpsilon
    /\ enable_rebuttal = TRUE
    /\ disagreement_threshold = DefaultDisagreementThreshold
    /\ InitLocals
    /\ model_memory = InitialMemory
    /\ run_log = <<>>
    /\ StopperIdle
    /\ MultiIdle
    /\ AuxIdle
    /\ max_size \in 0..MaxCacheSize
    /\ cache = <<>>
    /\ clock = 0

NextCache ==
    \/ CacheGet
    \/ CacheSet
    \/ CacheDelete
    \/ CacheClear
    \/ CleanupExpired
    \/ Tick

SpecCache == InitCache /\ [][NextCache]_vars

(***************************************************************************)
(* Properties of the single run and of the Solver Pool.                    *)
(***************************************************************************)
TopTwoGap == arbiter_current.ranking[1].score - arbiter_current.ranking[2].score

\* C1: with rebuttal enabled, the step that decides the escalation enters the
\* Rebuttal Round exactly when (distinct answers of the round-1 candidates) /
\* (number of round-1 candidates) >= disagreement_threshold, equality
\* included; no other step starts a Rebuttal Round, and a run has at most one.
C1_EscalationIffRateAtLeastThreshold ==
    [][ /\ (pc = "escalate" /\ enable_rebuttal) =>
              ( (pc' = "rebuttal" /\ rebuttal_runs' = rebuttal_runs + 1)
                <=> 100 * UniqueAnswers(results) >= disagreement_threshold * Len(results) )
        /\ (pc = "escalate" /\ pc' # "rebuttal") =>
              (pc' = "tie_break" /\ rebuttal_runs' = rebuttal_runs)
        /\ pc # "escalate" => rebuttal_runs' = rebuttal_runs
        /\ rebuttal_runs' <= 1 ]_vars

\* C1 witness: a Rebuttal Round was entered at a rate equal to the threshold.
C1_Witness ==
    /\ pc = "rebuttal"
    /\ enable_rebuttal
    /\ 100 * UniqueAnswers(results) = disagreement_threshold * Len(results)

\* C2: the consensus check calls the Consensus Synthesizer exactly when the
\* current ranking has two entries whose score gap is strictly below epsilon;
\* no other step calls it, and a run calls it at most once.
C2_ConsensusIffGapBelowEpsilon ==
    [][ /\ pc = "tie_break" =>
              ( (consensus_calls' = consensus_calls + 1)
                <=> (Len(arbiter_current.ranking) >= 2 /\ TopTwoGap < epsilon) )
        /\ pc # "tie_break" => consensus_calls' = consensus_calls
        /\ consensus_calls' <= 1 ]_vars

\* C2 witness: consensus was called for the scores 0.91 and 0.85 (gap 0.06).
C2_Witness ==
    /\ consensus_calls = 1
    /\ Len(arbiter_current.ranking) >= 2
    /\ arbiter_current.ranking[1].score = 91
    /\ arbiter_current.ranking[2].score = 85

SucceededCalls == {i \in Indices : futures[i].raw_ok}

\* C3: run_parallel never raises and never gets stuck; when it returns, the
\* result holds exactly one candidate, the one its call produced, for each
\* worker whose call succeeded, and nothing else.
C3_PoolReturnsExactlyTheSuccessfulCandidates ==
    /\ error = ""
    /\ pc \in {"run_parallel", "as_completed", "returned"}
    /\ pc # "returned" => ENABLED NextPool
    /\ pc = "returned" =>
          /\ Len(results) = Cardinality(SucceededCalls)
          /\ \A i \in Indices :
                Cardinality({k \in DOMAIN results : results[k].model_id = solvers[i]})
                   = IF futures[i].raw_ok THEN 1 ELSE 0
          /\ \A i \in SucceededCalls : \E k \in DOMAIN results : results[k] = futures[i].value

\* C3 witness: three workers, one failed, and the two candidates came back in
\* an order that is not the roster order.
C3_Witness ==
    /\ pc = "returned"
    /\ Len(solvers) = 3
    /\ ~futures[2].raw_ok
    /\ Len(results) = 2
    /\ results[1].model_id = "w3"
    /\ results[2].model_id = "w1"

\* C4: when RebuttalRound.run has returned, its output has one candidate per
\* input candidate, in the same position with the same worker id; where the
\* worker's rebuttal call failed it is the input candidate itself; and the
\* rebuttal never leaves the run by an exception of its own.
C4_RebuttalKeepsEveryWorker ==
    /\ pc = "rearbitrate" =>
          /\ Len(candidates_r2) = Len(candidates_current)
          /\ Len(rebuttal_ok) = Len(candidates_current)
          /\ \A k \in DOMAIN candidates_current :
                /\ candidates_r2[k].model_id = candidates_current[k].model_id
                /\ ~rebuttal_ok[k] => candidates_r2[k] = candidates_current[k]
    /\ (pc = "raised" /\ rebuttal_runs = 1) => error = "ArbiterError"

\* C4 witness: one worker's rebuttal failed, another's replaced its candidate.
C4_Witness ==
    /\ pc = "rearbitrate"
    /\ Len(candidates_current) = 2
    /\ ~rebuttal_ok[1]
    /\ rebuttal_ok[2]
    /\ candidates_r2[2] # candidates_current[2]

\* C5: once an arbiter call has failed (the call itself, or a response that
\* does not parse or violates the schema) the run has raised, the failed call
\* was the last arbiter call (no retry), and nothing of a decision exists:
\* Reliability Memory and the run log are as before the run.
C5_ArbiterFailureIsFatal ==
    arbiter_raw \in FailKinds =>
        /\ pc = "raised"
        /\ error = "ArbiterError"
        /\ arbiter_calls = rebuttal_runs + 1
        /\ consensus_calls = 0
        /\ decision_mode = "" /\ used_candidates = <<>> /\ final_answer = <<>>
        /\ model_memory = InitialMemory
        /\ run_log = <<>>

\* C5 witness: the re-arbitration after a rebuttal failed.
C5_Witness ==
    /\ arbiter_raw \in FailKinds
    /\ arbiter_calls = 2
    /\ pc = "raised"

\* C6: a consensus call that fails does not raise: the consensus check ends
\* with hard_select, the arbiter's selected worker and the arbiter's answer,
\* and the run goes on to update the reliability of every final-round
\* candidate and to write one run record per candidate.
C6_ConsensusFailureFallsBack ==
    [][ /\ (pc = "tie_break" /\ consensus_raw' \in ConsensusFailKinds) =>
              /\ pc' = "update"
              /\ error' = ""
              /\ decision_mode' = "hard_select"
              /\ used_candidates' = <<arbiter_current.selected_model_id>>
              /\ final_answer' = arbiter_current.final_answer
              /\ arbiter_current'.decision_mode = "hard_select"
              /\ arbiter_current'.used_candidates = <<arbiter_current.selected_model_id>>
              /\ arbiter_current'.final_answer = arbiter_current.final_answer
        /\ (pc = "update" /\ consensus_raw \in ConsensusFailKinds) =>
              /\ pc' = "emit"
              /\ \A k \in DOMAIN candidates_current :
                    LET m == candidates_current[k].model_id
                        before == IF m \in DOMAIN model_memory THEN model_memory[m].n ELSE 0
                    IN m \in DOMAIN model_memory' /\ model_memory'[m].n = before + 1
        /\ (pc = "emit" /\ consensus_raw \in ConsensusFailKinds) =>
              /\ pc' = "done"
              /\ Len(run_log') = Len(run_log) + Len(candidates_current)
              /\ \A k \in DOMAIN run_log' : run_log'[k].decision_mode = "hard_select" ]_vars

\* C6 witness: a run finished after its consensus call had failed.
C6_Witness ==
    /\ pc = "done"
    /\ consensus_raw \in ConsensusFailKinds
    /\ decision_mode = "hard_select"
    /\ Len(run_log) = 2

(***************************************************************************)
(* Properties of the multi-run loop, the Early Stopper and the Adaptive    *)
(* Run Manager.                                                            *)
(***************************************************************************)
FinalAnswers == [i \in DOMAIN results_per_run |-> results_per_run[i].final_answer]

\* The stopper of a manager after the answers were fed to it in order.
RECURSIVE StopperAfter(_, _)
StopperAfter(cfg, answers) ==
    IF answers = <<>> THEN FreshStopper
    ELSE record_run(cfg, StopperAfter(cfg, SubSeq(answers, 1, Len(answers) - 1)),
                    answers[Len(answers)]).stopper

\* What a manager built with the defaults returns for the k-th answer.
DefaultManagerContinues(answers, k) ==
    LET cfg == ManagerConfig(DefaultManagerMinRuns, DefaultTargetConfidence)
        recorded == record_run(cfg, StopperAfter(cfg, SubSeq(answers, 1, k - 1)),
                               answers[k])
    IN should_continue(DefaultManagerMinRuns, DefaultMaxRuns, recorded,
                       repeats).continues

\* C7: run_multi feeds every final answer to the Early Stopper and executes
\* no run after the one at which stop is signalled, so every executed run but
\* the last was answered with "continue"; the Stability Result of a returned
\* call counts exactly the runs executed.
C7_NoRunAfterStopSignal ==
    /\ \A k \in 1..(Len(results_per_run) - 1) :
           DefaultManagerContinues(FinalAnswers, k)
    /\ pc = "returned" => stability.total_runs = Len(results_per_run)

\* The call that has just appended to the history.
Recorded == Len(run_history') = Len(run_history) + 1

\* C8: a record_run call that leaves the history shorter than min_runs
\* returns should_stop = false with the reason "Minimum runs not reached",
\* whatever the convergence, and should_continue returns true for that run.
C8_NoStopBelowMinRuns ==
    [][ (Recorded /\ Len(run_history') < config.min_runs) =>
            /\ ~decision'.should_stop
            /\ decision'.reason = ReasonMinimum
            /\ entry = "should_continue" => continues' ]_vars

\* C8 witness: a manager with min_runs 3 was given the same answer twice
\* (convergence 1) and continues.
C8_Witness ==
    /\ entry = "should_continue"
    /\ min_runs = 3
    /\ Len(run_history) = 2
    /\ decision.current_run = 2
    /\ decision.dominant_count = 2
    /\ decision.reason = ReasonMinimum
    /\ continues

\* C9 as stated: for every min_runs and max_runs, should_continue returns
\* false, with should_stop = true and the reason "Maximum runs reached",
\* whenever the runs recorded are at or above max_runs.
C9_StopsAtMaxRuns ==
    [][ (Recorded /\ entry = "should_continue" /\ Len(run_history') >= max_runs) =>
            /\ ~continues'
            /\ decision'.should_stop
            /\ decision'.reason = ReasonMaximum ]_vars

\* C9 amended: should_continue returns false, with should_stop = true and the
\* reason "Maximum runs reached", whenever the runs recorded are at or above
\* max_runs and not below min_runs, whatever the stopper's verdict; while the
\* runs recorded are below min_runs it returns true even at or above max_runs.
\* With min_runs <= max_runs it never asks for a run beyond max_runs.
C9_StopsAtMaxRunsUnlessBelowMinRuns ==
    [][ (Recorded /\ entry = "should_continue" /\ Len(run_history') >= max_runs) =>
            IF Len(run_history') >= min_runs
            THEN /\ ~continues'
                 /\ decision'.should_stop
                 /\ decision'.reason = ReasonMaximum
            ELSE /\ continues'
                 /\ min_runs > max_runs ]_vars

\* C9 witness: at the ceiling, with every answer different (the stopper's own
\* verdict is to continue), the manager stops with "Maximum runs reached".
C9_Witness ==
    /\ entry = "should_continue"
    /\ Len(run_history) >= max_runs
    /\ Len(run_history) >= min_runs
    /\ decision.current_run = Len(run_history)
    /\ decision.dominant_count = 1
    /\ Len(run_history) >= 2
    /\ decision.reason = ReasonMaximum
    /\ decision.should_stop
    /\ ~continues

\* C10: the verdict of record_run is that of the first matching rule among
\* (a) history shorter than min_runs, (b) Wilson lower bound >=
\* confidence_threshold, (c) convergence >= convergence_threshold and streak
\* >= stability_window, (d) adaptive mode, at least 5 runs and convergence >=
\* 0.8, (e) otherwise; should_stop is true exactly for (b), (c), (d), and the
\* reason names the rule.
C10_FirstMatchingRule ==
    [][ (Recorded /\ entry = "record_run") =>
          LET n == Len(run_history')
              dc == Count(run_history', MostCommon(run_history'))
              a == n < config.min_runs
              b == CiLowerAtLeast(wilson_ci(dc, n), config.confidence_threshold)
              c == /\ 100 * dc >= config.convergence_threshold * n
                   /\ stability_streak' >= config.stability_window
              d == config.enable_adaptive /\ n >= 5 /\ 100 * dc >= 80 * n
          IN /\ decision'.should_stop = (~a /\ (b \/ c \/ d))
             /\ decision'.reason =
                   IF a THEN ReasonMinimum
                   ELSE IF b THEN ReasonConfidence
                   ELSE IF c THEN ReasonStable
                   ELSE IF d THEN ReasonAdaptive
                   ELSE ReasonContinuing ]_vars

\* C10 witness: rule (d) decided: five runs, four of them the same answer,
\* with a convergence threshold of 0.9 that rule (c) does not meet.
C10_Witness ==
    /\ entry = "record_run"
    /\ decision.current_run = Len(run_history)
    /\ decision.current_run = 5
    /\ decision.dominant_count = 4
    /\ config.convergence_threshold = 90
    /\ decision.reason = ReasonAdaptive
    /\ decision.should_stop

(***************************************************************************)
(* Properties of the ranking, the reliability store and the statistics.    *)
(***************************************************************************)
NonIncreasing(ranking) ==
    \A i, j \in DOMAIN ranking : i < j => ranking[i].score >= ranking[j].score

\* C11: the ranking of the Arbiter Output in use (the one the tie-break and
\* the Run Records read) is in non-increasing score order whatever order the
\* response listed it in, so the top-two gap is never negative; the scores
\* written to the Run Records are those of that ranking.
C11_RankingSortedDescending ==
    /\ NonIncreasing(arbiter_current.ranking)
    /\ Len(arbiter_current.ranking) >= 2 => TopTwoGap >= 0
    /\ \A k \in DOMAIN run_log :
          run_log[k].arbiter_score =
              ArbiterScore(arbiter_current.ranking, run_log[k].solver_model_id)

\* C11 witness: the tie-break reads a ranking of two different scores whose
\* higher entry is the second worker of the roster.
C11_Witness ==
    /\ pc = "tie_break"
    /\ Len(arbiter_current.ranking) = 2
    /\ arbiter_current.ranking[1].model_id = "w2"
    /\ arbiter_current.ranking[1].score > arbiter_current.ranking[2].score

\* One EMA step: reliability' = (1 - lr) * reliability + lr * reward, lr = 0.05.
EmaStep(e, reward) ==
    [n |-> e.n + 1,
     reliability |-> (95 * e.reliability + 5 * reward * RelUnit) \div 100]

EntryOf(state, m) == IF m \in DOMAIN state THEN state[m] ELSE FreshEntry

\* C12: the memory update of a successful run applies one EMA step with
\* reward 1 to every worker in the final used_candidates, one EMA step with
\* reward 0 to every other worker that has a candidate in the final round,
\* and touches no other worker; no other step of the run changes the store.
C12_RewardsUsedAndPenalizesOthers ==
    [][ IF pc = "update"
        THEN LET used == Range(used_candidates)
                 others == Range(ModelIds(candidates_current)) \ used
             IN /\ DOMAIN model_memory' = DOMAIN model_memory \cup used \cup others
                /\ \A m \in used :
                      model_memory'[m] = EmaStep(EntryOf(model_memory, m), 1)
                /\ \A m \in others :
                      model_memory'[m] = EmaStep(EntryOf(model_memory, m), 0)
                /\ \A m \in DOMAIN model_memory \ (used \cup others) :
                      model_memory'[m] = model_memory[m]
        ELSE model_memory' = model_memory ]_vars

\* C12 witness: after a run decided by hard_select for w1, w1 (seen once
\* before) has two trials and w2, unseen before, one trial with reward 0.
C12_Witness ==
    /\ pc = "emit"
    /\ used_candidates = <<"w1">>
    /\ Len(candidates_current) = 2
    /\ model_memory["w1"].n = 2
    /\ model_memory["w2"] = [n |-> 1, reliability |-> (19 * RelUnit) \div 40]

\* The entries k EMA steps can leave, the steps taken in any order.
RECURSIVE SequentialResults(_, _)
SequentialResults(e, T) ==
    IF T = {} THEN {e}
    ELSE UNION { SequentialResults(EmaStep(e, updaters[t].reward), T \ {t}) : t \in T }

UpdatersOf(m) == {t \in Threads : updaters[t].model_id = m}

\* A thread has written a part of its update and not yet the rest.
MidMutation(t) == updaters[t].pc \in {"read_r", "write_r"}

\* C13: concurrent updates of one worker are serialized: when the k updates
\* issued for a worker have all returned, its trial count has grown by k and
\* its reliability is that of the k EMA steps in some order; and no save runs
\* while an update is half written.
C13_ConcurrentUpdatesSerialized ==
    [][ /\ (\A t \in Threads : updaters'[t].pc = "done") =>
              \A m \in {"w1", "w2"} :
                 UpdatersOf(m) # {} =>
                    /\ m \in DOMAIN model_memory'
                    /\ model_memory'[m] \in
                          SequentialResults(EntryOf(InitialMemory, m), UpdatersOf(m))
        /\ memory_file' # memory_file => \A t \in Threads : ~MidMutation(t) ]_vars

\* C14: for 0 <= successes <= trials, trials >= 1, both Wilson functions
\* return 0 <= lower <= successes / trials <= upper <= 1; for trials = 0 they
\* return (0, 0).
C14_WilsonBoundsEncloseRate ==
    (entry = "wilson" /\ pc = "returned") =>
        IF call_in.trials = 0
        THEN FloatLowerCmp(call_out, 0, 1) = 0 /\ FloatUpperCmp(call_out, 0, 1) = 0
        ELSE /\ FloatLowerCmp(call_out, 0, 1) >= 0
             /\ FloatLowerCmp(call_out, call_in.successes, call_in.trials) <= 0
             /\ FloatUpperCmp(call_out, call_in.successes, call_in.trials) >= 0
             /\ FloatUpperCmp(call_out, 1, 1) <= 0

\* The outcomes analyze was called with all carry one decision-mode label.
Unanimous(runs) ==
    /\ runs # <<>>
    /\ \A i \in DOMAIN runs : runs[i].decision_mode = runs[1].decision_mode

AnalyzeReturned == entry = "analyze" /\ pc = "returned"

\* C15 as stated: for every N >= 3, analyze over N outcomes with one
\* decision-mode label returns majority_rate 1.0, that label as majority_mode
\* and a Wilson lower bound above 0.5.
C15_UnanimousLowerAboveHalfFromThree ==
    (AnalyzeReturned /\ Unanimous(call_in) /\ Len(call_in) >= 3) =>
        /\ call_out.majority_rate = 1000
        /\ call_out.majority_mode = call_in[1].decision_mode
        /\ call_out.ci_lower > 500

\* C15 amended: for every N >= 1, analyze over N outcomes with one
\* decision-mode label returns majority_rate 1.0 and that label as
\* majority_mode; the Wilson lower bound it returns is above 0.5 exactly when
\* N >= 4 (for N = 3 it is 0.438).
C15_UnanimousLowerAboveHalfFromFour ==
    (AnalyzeReturned /\ Unanimous(call_in)) =>
        /\ call_out.majority_rate = 1000
        /\ call_out.majority_mode = call_in[1].decision_mode
        /\ call_out.total_runs = Len(call_in)
        /\ call_out.ci_lower > 500 <=> Len(call_in) >= 4
        /\ Len(call_in) = 3 => call_out.ci_lower = 438

\* Five runs that all resolved to hard_select have been analyzed.
C15_Witness ==
    /\ AnalyzeReturned
    /\ call_in = [i \in 1..5 |-> [decision_mode |-> "hard_select"]]
    /\ call_out.majority_rate = 1000
    /\ call_out.majority_mode = "hard_select"
    /\ call_out.ci_lower = 566

DisagreementReturned == entry = "disagreement" /\ pc = "returned"

\* The final answers of the candidates, in order
AnswersOf(candidates) == [i \in DOMAIN candidates |-> candidates[i].final_answer]

AllIdentical(answers) == \A i \in DOMAIN answers : answers[i] = answers[1]

AllDistinct(answers) ==
    \A i \in DOMAIN answers : \A j \in DOMAIN answers : i # j => answers[i] # answers[j]

\* C16 as stated: the disagreement rate of a non-empty candidate set whose
\* final answers are all identical is 0, and of a set whose final answers are
\* all distinct is 1.
C16_IdenticalIsZeroDistinctIsOne ==
    DisagreementReturned =>
        /\ AllIdentical(AnswersOf(call_in)) => call_out.disagreement_rate.num = 0
        /\ AllDistinct(AnswersOf(call_in)) =>
              call_out.disagreement_rate.num = call_out.disagreement_rate.den

\* C16 amended: the disagreement rate of a non-empty set of n candidates
\* whose final answers are all identical is 1/n (never 0, and 1 for a single
\* candidate), and of a set whose final answers are all distinct is 1.
C16_IdenticalIsOneOverNDistinctIsOne ==
    DisagreementReturned =>
        /\ call_out.disagreement_rate.den = Len(call_in)
        /\ AllIdentical(AnswersOf(call_in)) => call_out.disagreement_rate.num = 1
        /\ AllDistinct(AnswersOf(call_in)) =>
              call_out.disagreement_rate.num = call_out.disagreement_rate.den

\* The rate of three candidates with one answer has been computed as 1/3.
C16_Witness ==
    /\ DisagreementReturned
    /\ AnswersOf(call_in) = << <<"a">>, <<"a">>, <<"a">> >>
    /\ call_out.disagreement_rate = [num |-> 1, den |-> 3]

\* The positions at which an answer string occurs for the first time
FirstOccurrences(answers) ==
    { i \in DOMAIN answers : \A j \in 1..(i - 1) : answers[j] # answers[i] }

\* Five of the answers are one string and the other two are two further ones.
FiveAndTwo(answers) ==
    /\ Len(answers) = 7
    /\ \E x \in CandidateAnswers :
          Cardinality({i \in DOMAIN answers : answers[i] = x}) = 5
    /\ Cardinality(FirstOccurrences(answers)) = 3

\* C17: the rate used for the escalation decision is (number of distinct
\* final-answer strings) / (number of candidates); the Rebuttal Round is
\* entered exactly when rebuttal is enabled and the rate is at least the
\* threshold; for 7 candidates with 5 identical answers and 2 further
\* distinct ones the rate is 3/7, below 0.55, and no Rebuttal Round runs.
C17_RateIsDistinctOverCandidates ==
    DisagreementReturned =>
        /\ call_out.disagreement_rate =
              [num |-> Cardinality(FirstOccurrences(AnswersOf(call_in))),
               den |-> Len(call_in)]
        /\ call_out.rebuttal <=>
              /\ enable_rebuttal
              /\ 100 * Cardinality(FirstOccurrences(AnswersOf(call_in)))
                    >= disagreement_threshold * Len(call_in)
        /\ (FiveAndTwo(AnswersOf(call_in)) /\ disagreement_threshold = 55) =>
              /\ call_out.disagreement_rate = [num |-> 3, den |-> 7]
              /\ ~call_out.rebuttal

\* Rebuttal is enabled and seven candidates, five with one answer and two
\* with two others, did not escalate.
C17_Witness ==
    /\ DisagreementReturned
    /\ enable_rebuttal
    /\ AnswersOf(call_in) =
          << <<"a">>, <<"b">>, <<"a">>, <<"a">>, <<"c">>, <<"a">>, <<"a">> >>
    /\ call_out.disagreement_rate = [num |-> 3, den |-> 7]
    /\ ~call_out.rebuttal

(***************************************************************************)
(* Properties of the Early Stopper's bookkeeping.  A non-empty history was *)
(* last changed by a record_run, so the decision held is the one that call *)
(* returned.                                                               *)
(***************************************************************************)
Occurrences(history, x) == {i \in DOMAIN history : history[i] = x}

\* d is in the history, no signature is more frequent, and every other
\* signature as frequent occurs for the first time after d does.
IsDominant(history, d) ==
    /\ Occurrences(history, d) # {}
    /\ \A j \in DOMAIN history :
          history[j] # d =>
             \/ Cardinality(Occurrences(history, history[j]))
                   < Cardinality(Occurrences(history, d))
             \/ /\ Cardinality(Occurrences(history, history[j]))
                      = Cardinality(Occurrences(history, d))
                /\ \E i \in Occurrences(history, d) :
                      \A k \in Occurrences(history, history[j]) : i < k

\* C18: after each record_run the dominant signature reported is the most
\* frequent signature of the whole history, a tie going to the one seen
\* first; dominant_count is its frequency and convergence_score is
\* dominant_count / len(history); for the history a, a, b, a, c the score is
\* 0.6 with dominant_count 3.
C18_DominantIsMostFrequentFirstSeen ==
    run_history # <<>> =>
        /\ IsDominant(run_history, decision.dominant_answer)
        /\ decision.dominant_count =
              Cardinality(Occurrences(run_history, decision.dominant_answer))
        /\ decision.convergence_score =
              [num |-> decision.dominant_count, den |-> Len(run_history)]
        /\ run_history = << <<"a">>, <<"a">>, <<"b">>, <<"a">>, <<"c">> >> =>
              /\ decision.dominant_count = 3
              /\ decision.dominant_answer = <<"a">>
              /\ 10 * decision.convergence_score.num
                    = 6 * decision.convergence_score.den

\* The history a, a, b, a, c has been recorded; its score is 3/5.
C18_Witness ==
    /\ entry = "record_run"
    /\ run_history = << <<"a">>, <<"a">>, <<"b">>, <<"a">>, <<"c">> >>
    /\ decision.current_run = 5
    /\ decision.dominant_answer = <<"a">>
    /\ decision.convergence_score = [num |-> 3, den |-> 5]

\* The dominant signature after the first k runs of the history
DominantAfter(history, k) ==
    CHOOSE d \in {history[i] : i \in 1..k} : IsDominant(SubSeq(history, 1, k), d)

\* How many of the most recent runs, the last one included, ended with the
\* dominant signature the last one ended with
RunsWithSameDominant(history, n) ==
    CHOOSE k \in 1..n :
        /\ \A j \in (n - k + 1)..n : DominantAfter(history, j) = DominantAfter(history, n)
        /\ k < n => DominantAfter(history, n - k) # DominantAfter(history, n)

\* C19: after each record_run the streak is the previous streak + 1 when the
\* dominant signature equals the one after the previous run and 1 otherwise,
\* the first run after construction or reset included; so 1 <= streak <=
\* len(history) after a record, and the streak is the number of consecutive
\* most recent runs that ended with the same dominant signature.
C19_StreakCountsRunsWithSameDominant ==
    run_history # <<>> =>
        LET n == Len(run_history) IN
        /\ last_dominant = DominantAfter(run_history, n)
        /\ stability_streak =
              IF n >= 2 /\ DominantAfter(run_history, n) = DominantAfter(run_history, n - 1)
              THEN RunsWithSameDominant(run_history, n - 1) + 1
              ELSE 1
        /\ 1 <= stability_streak
        /\ stability_streak <= n
        /\ stability_streak = RunsWithSameDominant(run_history, n)

\* After a, b, b, b the dominant signature changed from a to b at the third
\* run: the streak was started over there and is 2.
C19_Witness ==
    /\ run_history = << <<"a">>, <<"b">>, <<"b">>, <<"b">> >>
    /\ last_dominant = <<"b">>
    /\ stability_streak = 2

\* EarlyStopper.__init__: the fields of a stopper just constructed
ConstructedStopper == [run_history |-> <<>>, stability_streak |-> 0, last_dominant |-> None]

\* What record_run returns for the last of the answers when a stopper just
\* constructed is given them in order; answers is not empty.
RECURSIVE FedFromConstruction(_, _)
FedFromConstruction(cfg, answers) ==
    record_run(cfg,
               IF Len(answers) = 1 THEN ConstructedStopper
               ELSE FedFromConstruction(cfg, SubSeq(answers, 1, Len(answers) - 1)).stopper,
               answers[Len(answers)])

\* C20: each record_run appends exactly one signature, so current_run equals
\* len(history), grows by exactly 1 per call and the history never shrinks
\* but by a reset; reset and start_problem return history, streak and last
\* dominant signature to their initial values, so whatever was recorded
\* before a reset, the stopper and its decisions are those of a stopper just
\* constructed and given the answers recorded since.  (A signature is its own
\* signature, so the history stands for the answers.)
C20_HistoryGrowsByOneAndResetIsFresh ==
    [][ /\ \/ Recorded
           \/ run_history' = <<>>
        /\ Recorded =>
              /\ \E answer \in StopperAnswers :
                    run_history' = Append(run_history, get_answer_signature(answer))
              /\ decision'.current_run = Len(run_history')
              /\ decision'.current_run =
                    (IF run_history = <<>> THEN 0 ELSE decision.current_run) + 1
              /\ LET fed == FedFromConstruction(config, run_history')
                 IN /\ run_history' = fed.stopper.run_history
                    /\ stability_streak' = fed.stopper.stability_streak
                    /\ last_dominant' = fed.stopper.last_dominant
                    /\ entry = "record_run" => decision' = fed.decision
                    /\ entry = "should_continue" =>
                          LET r == should_continue(min_runs, max_runs, fed, DefaultRepeats)
                          IN decision' = r.decision /\ continues' = r.continues
        /\ ~Recorded =>
              /\ run_history' = ConstructedStopper.run_history
              /\ stability_streak' = ConstructedStopper.stability_streak
              /\ last_dominant' = ConstructedStopper.last_dominant ]_vars

\* A stopper that had recorded three runs, two of them with a streak, has
\* been reset: its fields are the initial ones.
C20_Witness ==
    /\ decision.current_run = 3
    /\ decision.dominant_count = 3
    /\ run_history = <<>>
    /\ stability_streak = 0
    /\ last_dominant = None

(***************************************************************************)
(* Properties of the saved-run count.                                      *)
(***************************************************************************)
\* C21: whenever an early stop occurs the decision's saved_runs equals its
\* planned total minus its current_run: in should_continue when the
\* stopper's verdict stops a run between the floor and the ceiling, and in
\* check_early_stop whenever should_stop is true; there saved_runs is 0 when
\* should_stop is false.
C21_SavedRunsIsPlannedMinusCurrent ==
    /\ (entry = "should_continue" /\ ~continues /\ decision.reason # ReasonMaximum) =>
          decision.saved_runs = decision.total_planned_runs - decision.current_run
    /\ (entry = "check_early_stop" /\ decision.current_run > 0) =>
          decision.saved_runs =
             IF decision.should_stop
             THEN decision.total_planned_runs - decision.current_run
             ELSE 0

(***************************************************************************)
(* Properties of the order of the steps of one run.                        *)
(***************************************************************************)
\* The place of a control point in the order Dispatch, Arbitrate, Rebuttal,
\* re-Arbitrate, Consensus, Update Reliability, Emit Run Records
Stage(p) ==
    CASE p \in {"run_parallel", "as_completed"} -> 1
      [] p \in {"disagreement", "arbitrate"} -> 2
      [] p = "escalate" -> 3
      [] p = "rebuttal" -> 4
      [] p = "rearbitrate" -> 5
      [] p = "tie_break" -> 6
      [] p = "update" -> 7
      [] p = "emit" -> 8
      [] p = "done" -> 9
      [] OTHER -> 10

\* No solver call of the round is queued, running or uncollected.
NoSolverCallPending ==
    /\ DOMAIN futures = DOMAIN solvers
    /\ \A i \in DOMAIN futures : futures[i].state = "collected"

\* Every rebuttal call of the round has come back.
NoRebuttalCallPending ==
    /\ Len(rebuttal_ok) = Len(candidates_current)
    /\ Len(improved) = Len(candidates_current)

\* C22: within one run the steps occur in the order Dispatch, Arbitrate,
\* optional Rebuttal followed by a re-Arbitrate on the new candidates,
\* optional Consensus, Update Reliability, Emit Run Records, each starting
\* only when the previous one is complete: no arbitration while a solver or
\* rebuttal call of the round is pending; the arbiter is called exactly twice
\* and the round number is 2 when escalation happened, and exactly once with
\* round number 1 otherwise.
C22_StepsInOrder ==
    [][ /\ Stage(pc') >= Stage(pc)
        /\ Stage(pc') > Stage(pc) + 1 =>
              \/ pc' = "raised"
              \/ pc = "escalate" /\ pc' = "tie_break"
        /\ pc' \in {"arbitrate", "escalate"} => NoSolverCallPending'
        /\ pc' = "rearbitrate" => NoRebuttalCallPending' /\ candidates_r2' = improved'
        /\ arbiter_calls' =
              (CASE Stage(pc') <= 2 -> 0
                 [] Stage(pc') \in 3..5 -> 1
                 [] Stage(pc') \in 6..9 -> 1 + rebuttal_runs'
                 [] OTHER -> arbiter_calls')
        /\ Stage(pc') \in 6..9 =>
              /\ rebuttal_runs' \in {0, 1}
              /\ round_number' = 1 + rebuttal_runs'
              /\ rebuttal_runs' = 1 => candidates_current' = candidates_r2'
        /\ Stage(pc') <= 5 => consensus_calls' = 0
        /\ Stage(pc') <= 3 => rebuttal_runs' = 0
        /\ Stage(pc') <= 7 => model_memory' = InitialMemory
        /\ Stage(pc') <= 8 => run_log' = <<>>
        /\ pc' = "done" => run_log' # <<>> /\ model_memory' # InitialMemory ]_vars

\* A run with a rebuttal and a consensus call has finished: two arbiter
\* calls, round number 2, records written.
C22_Witness ==
    /\ entry = "run_single"
    /\ pc = "done"
    /\ rebuttal_runs = 1
    /\ arbiter_calls = 2
    /\ round_number = 2
    /\ consensus_calls = 1
    /\ run_log # <<>>

(***************************************************************************)
(* Properties of the Solver Pool's scheduling.                             *)
(***************************************************************************)
\* The changes of state a future goes through, each at most once
FutureSteps ==
    { <<"queued", "running">>, <<"running", "done">>, <<"done", "collected">> }

\* C23: run_parallel issues the worker call of every roster entry exactly
\* once per round and returns only after every dispatched call has returned
\* or failed; a failed call neither cancels nor skips another worker's call;
\* and if every call eventually returns or fails, run_parallel eventually
\* returns.
C23_EveryCallIssuedOnceAndAwaited ==
    /\ [][ /\ pc = "run_parallel" =>
                /\ DOMAIN futures' = DOMAIN solvers
                /\ \A i \in DOMAIN futures' : futures'[i].state = "queued"
           /\ pc = "as_completed" =>
                \A i \in Indices :
                   \/ futures'[i] = futures[i]
                   \/ <<futures[i].state, futures'[i].state>> \in FutureSteps
           /\ pc' = "returned" =>
                \A i \in Indices : futures[i].state = "collected" ]_vars
    /\ <>(pc = "returned")

\* Three workers: the first call to finish failed, the other two were still
\* run and collected, and the pool returned.
C23_Witness ==
    /\ entry = "run_parallel"
    /\ pc = "returned"
    /\ Len(solvers) = 3
    /\ ~futures[1].raw_ok
    /\ futures[2].raw_ok
    /\ futures[3].raw_ok
    /\ \A i \in Indices : futures[i].state = "collected"
    /\ Len(results) = 2

RunningCalls == {i \in DOMAIN futures : futures[i].state = "running"}

\* C24: during run_parallel the number of worker calls in flight never
\* exceeds min(max_workers, roster size); max_workers defaults to 8.
C24_InFlightBoundedByPoolSize ==
    /\ DefaultMaxWorkers = 8
    /\ Cardinality(RunningCalls) <= max_workers
    /\ Cardinality(RunningCalls) <= Len(solvers)

\* Three workers and max_workers = 2: two calls are in flight and the third
\* is waiting for a free thread.
C24_Witness ==
    /\ entry = "run_parallel"
    /\ Len(solvers) = 3
    /\ max_workers = 2
    /\ Cardinality(RunningCalls) = 2
    /\ \E i \in DOMAIN futures : futures[i].state = "queued"

(***************************************************************************)
(* Properties of the Rebuttal Round's scheduling.                          *)
(***************************************************************************)
\* C25: the Rebuttal Round runs the per-worker calls concurrently: while the
\* call for one worker is in flight, the call for a worker whose call has not
\* been issued yet can be issued without waiting for it; and every call sees
\* the complete prior-round candidate set, its own prior answer and every
\* other worker's, never a partially replaced one.
C25_RebuttalCallsConcurrent ==
    (entry = "rebuttal_run" /\ pc = "rebuttal_loop" /\ call_in # <<>>) =>
        /\ \E k \in DOMAIN candidates_current :
              /\ call_in.own = candidates_current[k]
              /\ Range(call_in.others) =
                    {candidates_current[j] : j \in DOMAIN candidates_current \ {k}}
        /\ Len(improved) + 1 < Len(candidates_current) =>
              ENABLED RebuttalCallStart

(***************************************************************************)
(* Properties of the run log.                                              *)
(***************************************************************************)
\* The (round, worker) pairs of the candidates of a round, in list order
RoundPairs(round, candidates) ==
    [i \in DOMAIN candidates |-> <<round, candidates[i].model_id>>]

IsPrefix(s, t) == Len(s) <= Len(t) /\ SubSeq(t, 1, Len(s)) = s

\* C26: for each run one Run Record is emitted per (round, worker) pair for
\* every round executed in that run, both rounds when a rebuttal took place,
\* in candidate collection order; and records already emitted are never
\* changed or removed.
C26_OneRecordPerRoundAndWorker ==
    [][ /\ IsPrefix(run_log, run_log')
        /\ pc' = "done" =>
              [i \in DOMAIN run_log' |->
                  <<run_log'[i].round_number, run_log'[i].solver_model_id>>]
              = IF rebuttal_runs' = 1
                THEN RoundPairs(1, results') \o RoundPairs(2, candidates_r2')
                ELSE RoundPairs(1, results') ]_vars

(***************************************************************************)
(* Properties of the decision a run ends with.                             *)
(***************************************************************************)
\* The run is past the consensus check and has not raised.
Decided == entry = "run_single" /\ pc \in {"update", "emit", "done"}

\* The model ids among the first k of the ranking
TopRanked(k) ==
    {arbiter_current.ranking[i].model_id :
        i \in {j \in DOMAIN arbiter_current.ranking : j <= k}}

\* C27: after every successful run the decision mode is hard_select or the
\* tag consensus_top<k> with k = min(consensus_topk, number of final-round
\* candidates); it is the tag exactly when the Consensus Synthesizer was
\* invoked and succeeded, and then the final answer and used_candidates are
\* the synthesizer's; the Arbiter Output held by the Orchestrator carries
\* the same decision mode, used_candidates and final answer.
C27_DecisionModeAndOverwrite ==
    Decided =>
        LET k == IF consensus_topk <= Len(candidates_current)
                 THEN consensus_topk ELSE Len(candidates_current)
            tag == CASE k = 1 -> "consensus_top1" [] k = 2 -> "consensus_top2"
                     [] k = 3 -> "consensus_top3" [] k = 4 -> "consensus_top4"
                     [] OTHER -> ""
            synthesized == consensus_calls = 1 /\ consensus_raw = "ok"
        IN /\ decision_mode \in {"hard_select", tag}
           /\ decision_mode = tag <=> synthesized
           /\ synthesized =>
                 /\ final_answer \in {r.final_answer : r \in RawConsensusResponses}
                 /\ final_answer # ArbiterAnswer(arbiter_calls)
                 /\ Len(used_candidates) <= k
                 /\ \A i \in DOMAIN used_candidates :
                       used_candidates[i] \in TopRanked(k)
                 /\ \E f \in [DOMAIN used_candidates -> DOMAIN candidates_current] :
                       /\ \A i \in DOMAIN used_candidates :
                             candidates_current[f[i]].model_id = used_candidates[i]
                       /\ \A i, j \in DOMAIN used_candidates : i < j => f[i] < f[j]
                 /\ \A c \in DOMAIN candidates_current :
                       (/\ candidates_current[c].model_id \in TopRanked(k)
                        /\ Cardinality({j \in 1..c :
                              candidates_current[j].model_id \in TopRanked(k)}) <= k)
                       => \E i \in DOMAIN used_candidates :
                             used_candidates[i] = candidates_current[c].model_id
           /\ ~synthesized =>
                 /\ decision_mode = "hard_select"
                 /\ used_candidates = <<arbiter_current.selected_model_id>>
                 /\ final_answer = ArbiterAnswer(arbiter_calls)
           /\ arbiter_current.decision_mode = decision_mode
           /\ arbiter_current.used_candidates = used_candidates
           /\ arbiter_current.final_answer = final_answer

\* A run with consensus_topk = 3 and two candidates ended with the tag
\* consensus_top2 and the synthesizer's answer and sources.
C27_Witness ==
    /\ entry = "run_single"
    /\ pc = "done"
    /\ consensus_topk = 3
    /\ Len(candidates_current) = 2
    /\ decision_mode = "consensus_top2"
    /\ Len(used_candidates) = 2
    /\ final_answer = <<"s">>
    /\ arbiter_current.decision_mode = "consensus_top2"
    /\ arbiter_current.used_candidates = used_candidates

(***************************************************************************)
(* Properties of ModelMemory used by one caller.                           *)
(***************************************************************************)
\* The latest call was get_reliability and it returned.
ReadReturned(out) == out # <<>> /\ out.fn = "get_reliability" /\ out.value # -1

\* C28: a read that returns leaves the reliability state and the store as they
\* were (no entry appears, no trial count moves), and for a worker with no
\* entry it returns exactly 0.5, however many reads came before.
C28_UnseenReadIsHalfAndReadsChangeNothing ==
    [][ (pc = "ready" /\ call_out' # call_out /\ ReadReturned(call_out')) =>
           /\ model_memory' = model_memory
           /\ memory_file' = memory_file
           /\ call_out'.model_id \notin DOMAIN model_memory =>
                 call_out'.value = RelUnit \div 2 ]_vars

\* A second worker is read, still unseen, after the first one was updated.
C28_Witness ==
    /\ entry = "model_memory"
    /\ ReadReturned(call_out)
    /\ call_out.model_id = "w2"
    /\ call_out.value = RelUnit \div 2
    /\ DOMAIN model_memory = {"w1"}
    /\ UpdatesApplied > 0

\* The store holds a reliability mapping: the only content that is not corrupt.
StoreIntact(store) == store.kind = "json" /\ store.content # NoneState

\* C29: construction never raises, and when the store is missing or its
\* content is not a reliability mapping the memory starts empty (every worker
\* unseen), no later read, update or save raises, and the state holds exactly
\* the updates applied since.
C29_BrokenStoreStartsEmpty ==
    (pc # "new" /\ ~StoreIntact(call_in)) =>
        /\ pc = "ready"
        /\ error = ""
        /\ model_memory # NoneState
        /\ TrialsIn(model_memory, DOMAIN model_memory) = UpdatesApplied
        /\ UpdatesApplied = 0 => model_memory = <<>>

\* The step is a call of update_reliability that returned.
UpdateReturned ==
    /\ pc = "ready" /\ pc' = "ready"
    /\ call_out'.fn = "update_reliability"
    /\ call_out' # call_out \/ model_memory' # model_memory

\* new = (1 - lr) * old + lr * reward, all three of reward, lr in hundredths
IsEma(new, old, reward, lr) ==
    100 * new = (100 - lr) * old + lr * reward * (RelUnit \div 100)

\* C30: with rewards and learning rates in [0,1], every reliability stays in
\* [0,1]; an update of worker m adds one to m's trial count (from 0 when m is
\* unseen), moves m's reliability by the EMA step from its previous value
\* (from 0.5 when m is unseen) and leaves the other workers alone; no other
\* call changes the state, so n counts the updates and never decreases.
C30_ReliabilityBoundedAndTrialsCounted ==
    /\ [](\A m \in DOMAIN model_memory :
             model_memory[m].reliability >= 0 /\ model_memory[m].reliability <= RelUnit)
    /\ [][ (pc = "ready" /\ model_memory # NoneState) =>
             IF UpdateReturned
             THEN LET m == call_out'.model_id
                      seen == m \in DOMAIN model_memory
                      old_n == IF seen THEN model_memory[m].n ELSE 0
                      old_r == IF seen THEN model_memory[m].reliability
                               ELSE RelUnit \div 2
                  IN /\ DOMAIN model_memory' = DOMAIN model_memory \cup {m}
                     /\ model_memory'[m].n = old_n + 1
                     /\ \E reward \in Rewards, lr \in LearningRates :
                           IsEma(model_memory'[m].reliability, old_r, reward, lr)
                     /\ \A x \in DOMAIN model_memory \ {m} :
                           model_memory'[x] = model_memory[x]
             ELSE model_memory' = model_memory ]_vars

\* Three updates from an empty state: w1 twice, ending at 0, w2 once, ending
\* at 1.
C30_Witness ==
    /\ entry = "model_memory"
    /\ call_in.kind = "missing"
    /\ UpdatesApplied = 3
    /\ DOMAIN model_memory = {"w1", "w2"}
    /\ model_memory["w1"] = [n |-> 2, reliability |-> 0]
    /\ model_memory["w2"] = [n |-> 1, reliability |-> RelUnit]

(***************************************************************************)
(* Properties of the statistics on no runs, of the multi-run loop and of   *)
(* the decision of a run.                                                  *)
(***************************************************************************)
\* C31: analyze on an empty list of outcomes returns majority rate 0, the
\* interval (0, 0) and no majority label, and get_stats on an empty history
\* returns 0 runs, convergence 0 and no dominant answer; neither call raises.
C31_StatisticsTotalOnZeroRuns ==
    /\ (entry = "analyze" /\ call_in = <<>>) =>
          /\ error = ""
          /\ pc = "call" => ENABLED CallAnalyze
          /\ pc = "returned" =>
                /\ call_out.majority_rate = 0
                /\ call_out.ci_lower = 0 /\ call_out.ci_upper = 0
                /\ call_out.majority_mode = ""
                /\ call_out.mode_distribution = <<>>
    /\ (entry = "get_stats" /\ call_in.run_history = <<>>) =>
          /\ error = ""
          /\ pc = "call" => ENABLED CallGetStats
          /\ pc = "returned" =>
                /\ call_out.runs = 0
                /\ call_out.convergence.num = 0
                /\ call_out.dominant = None

\* analyze has returned for an empty list of outcomes.
C31_Witness ==
    /\ AnalyzeReturned
    /\ call_in = <<>>
    /\ call_out.majority_rate = 0
    /\ call_out.total_runs = -1

\* The number of outcomes a mode distribution counts.
RECURSIVE Counted(_, _)
Counted(dist, modes) ==
    IF modes = {} THEN 0
    ELSE LET m == CHOOSE x \in modes : TRUE
         IN dist[m] + Counted(dist, modes \ {m})

\* C32: a run that ends in an arbiter failure leaves run_multi by that
\* exception, with no outcome appended and no Stability Result or final
\* snapshot produced; a Stability Result that is produced counts exactly the
\* completed runs (each of which wrote its run records), every one of them
\* with a decision-mode label.
C32_FailedRunNeverCounted ==
    /\ \A i \in DOMAIN results_per_run : results_per_run[i].decision_mode # ""
    /\ Len(run_log) = Len(solvers) * Len(results_per_run)
    /\ error = "ArbiterError" =>
          /\ pc = "raised"
          /\ stability = NoStability
          /\ final_data = NoFinalData
    /\ stability # NoStability =>
          /\ error # "ArbiterError"
          /\ stability.total_runs = Len(results_per_run)
          /\ Counted(stability.mode_distribution, DOMAIN stability.mode_distribution)
                = Len(results_per_run)
          /\ "" \notin DOMAIN stability.mode_distribution

\* The third run fails on the arbiter after two completed runs.
C32_Witness ==
    /\ entry = "run_multi"
    /\ pc = "raised"
    /\ error = "ArbiterError"
    /\ Len(results_per_run) = 2
    /\ repeats > 2

\* The step is a call of an LRUCache method that returned.
CacheCall(fn) ==
    /\ entry = "lru_cache" /\ pc = "ready" /\ pc' = "ready"
    /\ clock' = clock
    /\ call_out' # call_out \/ cache' # cache
    /\ call_out'.fn = fn

\* The keys of c other than k, in their order, followed by k.
MovedToEnd(c, k) == KeysOf(Without(c, {k})) \o <<k>>

\* C33: the cache never holds more than max_size entries, nor one key twice.
\* Its order is the order of last use: a get that returns a value and a set
\* of an existing key move that key to the most recent end; a set of a new
\* key appends it and, when the cache is full, removes exactly the entry at
\* the least recent end; every other call keeps the order of what it leaves.
C33_BoundedAndEvictsLeastRecentlyUsed ==
    /\ [](/\ Len(cache) <= max_size
          /\ Cardinality(Range(KeysOf(cache))) = Len(cache))
    /\ [][ /\ (CacheCall("get") /\ call_out'.hit) =>
                KeysOf(cache') = MovedToEnd(cache, call_out'.key)
           /\ (CacheCall("set") /\ call_out'.hit) =>
                KeysOf(cache') = MovedToEnd(cache, call_out'.key)
           /\ (CacheCall("set") /\ ~call_out'.hit /\ Len(cache) < max_size) =>
                KeysOf(cache') = KeysOf(cache) \o <<call_out'.key>>
           /\ (CacheCall("set") /\ ~call_out'.hit /\ Len(cache) = max_size) =>
                /\ KeysOf(cache') = Tail(KeysOf(cache)) \o <<call_out'.key>>
                /\ call_out'.evicted = {cache[1].key}
           /\ (entry = "lru_cache" /\ ~CacheCall("set")
                  /\ ~(CacheCall("get") /\ call_out'.hit)) =>
                \E ks \in SUBSET CacheKeys : cache' = Without(cache, ks) ]_vars

\* k1 and k2 were stored, k1 was read, and the set of k3 evicted k2.
C33_Witness ==
    /\ entry = "lru_cache"
    /\ max_size = 2
    /\ KeysOf(cache) = <<"k1", "k3">>
    /\ call_out.fn = "set"
    /\ call_out.key = "k3"
    /\ call_out.evicted = {"k2"}

\* The run returned: every step of run_single has been taken.
Returned == entry = "run_single" /\ pc = "done"

\* C34: after every successful run used_candidates is not empty and names
\* only workers with a candidate in the final round; after a successful
\* consensus it names only workers among the first K of the ranking,
\* K = min(consensus_topk, number of candidates).
C34_UsedCandidatesAreFinalRoundWorkers ==
    Returned =>
        LET k == Min(consensus_topk, Len(candidates_current))
        IN /\ used_candidates # <<>>
           /\ Range(used_candidates) \subseteq Range(ModelIds(candidates_current))
           /\ decision_mode # "hard_select" =>
                 Range(used_candidates) \subseteq TopRanked(k)

\* C35: the memory update of a successful run adds exactly one to the trial
\* count of every worker with a candidate in the final round, and neither
\* creates nor changes the entry of any other worker identifier; no other
\* step of the run changes the store.
C35_OneTrialPerFinalRoundWorker ==
    [][ IF pc = "update"
        THEN LET final == Range(ModelIds(candidates_current))
             IN /\ \A m \in final :
                      /\ m \in DOMAIN model_memory'
                      /\ model_memory'[m].n = EntryOf(model_memory, m).n + 1
                /\ DOMAIN model_memory' = DOMAIN model_memory \cup final
                /\ \A m \in DOMAIN model_memory \ final :
                      model_memory'[m] = model_memory[m]
        ELSE model_memory' = model_memory ]_vars

\* The Solver Pool has returned to run_single.
PoolReturned == entry = "run_single" /\ Stage(pc) >= Stage("disagreement")

\* C36: when the Solver Pool returns no candidate, run_single takes one more
\* step, which raises; it never calls the arbiter and leaves Reliability
\* Memory and the run log as they were.
C36_EmptyPoolFailsBeforeArbiter ==
    (PoolReturned /\ results = <<>>) =>
        /\ pc \in {"disagreement", "raised"}
        /\ pc = "disagreement" => ENABLED Disagreement
        /\ pc = "raised" => error = "ZeroDivisionError"
        /\ arbiter_calls = 0
        /\ rebuttal_runs = 0 /\ consensus_calls = 0
        /\ model_memory = InitialMemory
        /\ run_log = <<>>

\* Every call of the roster failed and the run has raised.
C36_Witness ==
    /\ entry = "run_single"
    /\ pc = "raised"
    /\ error = "ZeroDivisionError"
    /\ results = <<>>
    /\ Len(futures) = Len(solvers)
    /\ \A i \in DOMAIN futures : ~futures[i].raw_ok /\ ~futures[i].ok

\* C37: for every repeat count from 0 up, unless a run fails, run_multi
\* returns normally: it raises nothing of its own, the Stability Result it
\* returns has total_runs = the number of runs executed = repeats, and
\* Reliability Memory is written to its store at the return and not before.
C37_RunMultiReturnsForEveryRepeatCount ==
    entry = "run_multi" =>
        /\ pc = "raised" => error = "ArbiterError"
        /\ pc = "run_multi" => memory_file = InitialMemory
        /\ pc = "returned" =>
              /\ Len(results_per_run) = repeats
              /\ stability.total_runs = repeats
              /\ final_data.stability = stability
              /\ memory_file = model_memory

\* The candidates cs put in the order of the roster ids.
RECURSIVE InRosterOrder(_, _)
InRosterOrder(cs, ids) ==
    IF ids = <<>> THEN <<>>
    ELSE SelectSeq(cs, LAMBDA c : c.model_id = Head(ids)) \o InRosterOrder(cs, Tail(ids))

\* The outputs of the solver calls that succeeded, in roster order: what the
\* workers responded, whatever the order in which their calls completed.
RECURSIVE SucceededOutputs(_)
SucceededOutputs(i) ==
    IF i > Len(futures) THEN <<>>
    ELSE (IF futures[i].ok THEN <<futures[i].value>> ELSE <<>>) \o SucceededOutputs(i + 1)

\* The decision run_single takes on the final-round candidates cs with the
\* arbiter and consensus responses of this run.
DecisionOn(cs) ==
    LET hard == [decision_mode |-> "hard_select",
                 used_candidates |-> <<arbiter_current.selected_model_id>>,
                 final_answer |-> ArbiterAnswer(arbiter_calls)]
        top_k == Min(consensus_topk, Len(cs))
        raw == [kind |-> consensus_raw, final_answer |-> final_answer]
    IN IF GapBelowEpsilon(arbiter_current.ranking, epsilon)
       THEN consensus_outcome(hard, top_k,
                synthesize(TopCandidates(cs, arbiter_current.ranking, top_k), top_k, raw))
       ELSE hard

\* C38: the decision of a run is the one computed from the workers'
\* responses taken in roster order: the Rebuttal Round is entered exactly
\* when the rate over the succeeded outputs reaches the threshold, and the
\* decision mode, the set of used_candidates and the final answer are those
\* decided on the final-round candidates in roster order.  Two runs with the
\* same responses that differ in the order of completion therefore decide
\* alike; only the order of the candidates differs.
C38_DecisionIndependentOfCompletionOrder ==
    Decided =>
        LET d == DecisionOn(InRosterOrder(candidates_current, solvers))
        IN /\ Range(results) = Range(SucceededOutputs(1))
           /\ Len(results) = Len(SucceededOutputs(1))
           /\ rebuttal_runs = 1 <=>
                 escalates(enable_rebuttal, DisagreementRate(SucceededOutputs(1)),
                           disagreement_threshold)
           /\ Range(ModelIds(candidates_current)) = Range(ModelIds(results))
           /\ decision_mode = d.decision_mode
           /\ Range(used_candidates) = Range(d.used_candidates)
           /\ final_answer = d.final_answer

\* The second worker of the roster completed first, and the run ended with a
\* consensus over both.
C38_Witness ==
    /\ Returned
    /\ ModelIds(results) = <<"w2", "w1">>
    /\ decision_mode = "consensus_top2"
    /\ used_candidates = <<"w2", "w1">>

\* Both Wilson functions have returned for the same counts.
BothReturned == entry = "wilson_both" /\ pc = "returned"

\* C39: for every 0 <= successes <= trials, EarlyStopper._wilson_ci and
\* WilsonCI.calculate return the same (lower, upper) interval.
C39_WilsonImplementationsAgree ==
    BothReturned => call_out.early = call_out.stability

\* record_run has returned a decision under the default convergence
\* threshold and stability window with the adaptive mode on.
DefaultThresholdsDecided ==
    /\ entry = "record_run"
    /\ decision # NoDecision
    /\ config.convergence_threshold = DefaultConvergenceThreshold
    /\ config.stability_window = DefaultStabilityWindow
    /\ config.enable_adaptive

\* The condition of the adaptive rule on the decision returned.
AdaptiveCondition ==
    /\ decision.current_run >= AdaptiveMinRuns
    /\ 100 * decision.dominant_count >= AdaptiveConvergence * decision.current_run

\* C40: with the default thresholds no record_run returns the "Adaptive
\* stop" reason, and whenever the adaptive rule's condition holds (at least
\* 5 runs, convergence >= 0.8) the decision is the high-confidence or the
\* stable-convergence stop.
C40_AdaptiveRuleNeverDecides ==
    DefaultThresholdsDecided =>
        /\ decision.reason # ReasonAdaptive
        /\ AdaptiveCondition =>
              /\ decision.should_stop
              /\ decision.reason \in {ReasonConfidence, ReasonStable}

\* Four of five runs agree under the default configuration: the interval's
\* lower bound is below the confidence threshold and the stable rule stops.
C40_Witness ==
    /\ DefaultThresholdsDecided
    /\ config = DefaultConfig
    /\ decision.current_run = 5
    /\ decision.dominant_count = 4
    /\ decision.reason = ReasonStable

====
